---------------------------- MODULE Spec2Model ----------------------------
(* Verification model of the cross-backend analytical query engine and of  *)
(* its benchmark harness (script/phase1_sqlite, script/phase2_mongodb).    *)
(*                                                                         *)
(* Conventions.                                                            *)
(*  - A text value is the sequence of its character codes (ASCII), so that *)
(*    ordering (binary collation) and substring search are computed.       *)
(*  - average_rating is held in tenths (7.0 is 70); an average is the      *)
(*    exact fraction [num, den].                                           *)
(*  - SQL NULL / Python None / a missing document field is Null, which     *)
(*    both stores order before every number.                               *)
(*  - A query result whose order the store leaves open (rows that tie on   *)
(*    every sort key, find() without sort) is a nondeterministic choice:   *)
(*    each query is the SET of the results the store may return.           *)

EXTENDS Integers, Sequences, FiniteSets, TLC

VARIABLES
    db,     \* the SQLite database imdb.db: one set of rows per table
    mdb,    \* the MongoDB database cineexplorer_flat: one set of documents per collection
    out,    \* what the last executed computation returned
    indexes,\* the names of the indexes that exist in imdb.db
    run     \* the script that is running: where it is and what it has measured

vars == <<db, mdb, out, indexes, run>>

-----------------------------------------------------------------------------
(* Bounds of the model.                                                    *)

MaxTitles == 4      \* titles loaded into movies
MaxCast == 1        \* persons loaded beside the titles of a title-only computation
MaxBatches == 2     \* runs of migrate_flat without --drop
MaxN == 2           \* largest n asked of Q2
MaxPeople == 2      \* persons loaded for a computation on persons
MaxRoleTitles == 2  \* titles loaded for the computation on characters
MaxHomonyms == 21   \* persons loaded for the comparison, one more than PersonLimit
MaxRepeats == 3     \* largest repeat count given to a timing helper
MaxWarmup == 1      \* largest warm-up count given to a timing helper
MaxTick == 2        \* longest invocation, in ticks of the clock
MaxQueries == 2     \* labels of make_queries a run of the benchmark times
MaxExtraTitles == 2 \* titles loaded after the first fifty of a computation on genres

-----------------------------------------------------------------------------
(* Scalars.                                                                *)

Null == -1000000

\* NULL in a text column whose values are never empty
NullText == <<>>

Min2(a, b) == IF a < b THEN a ELSE b
Max2(a, b) == IF a > b THEN a ELSE b

\* "A", "B", "Drama", "Comedy", "Tom Hanks" as character codes
TitleA == <<65>>
TitleB == <<66>>
Drama == <<68, 114, 97, 109, 97>>
Comedy == <<67, 111, 109, 101, 100, 121>>
TomHanks == <<84, 111, 109, 32, 72, 97, 110, 107, 115>>

\* Three-way comparisons: -1 (before), 0 (tie), 1 (after), ascending.
CmpInt(a, b) == IF a < b THEN -1 ELSE IF a > b THEN 1 ELSE 0

RECURSIVE StrLess(_, _)
StrLess(a, b) ==
    IF b = <<>> THEN FALSE
    ELSE IF a = <<>> THEN TRUE
    ELSE IF a[1] # b[1] THEN a[1] < b[1]
    ELSE StrLess(Tail(a), Tail(b))

CmpStr(a, b) == IF StrLess(a, b) THEN -1 ELSE IF StrLess(b, a) THEN 1 ELSE 0

\* The first sort key that decides: the ORDER BY / $sort key list.
Lex(cs) ==
    LET nz == {i \in DOMAIN cs : cs[i] # 0}
    IN  IF nz = {} THEN 0 ELSE cs[CHOOSE i \in nz : \A j \in nz : i <= j]

\* The rows a join produced, each shown as Out(row), with the number of times
\* each occurs: a function from the distinct rows to their counts.
BagOf(S, Out(_)) ==
    LET vals == {Out(y) : y \in S}
    IN  [v \in vals |-> Cardinality({y \in S : Out(y) = v})]

\* Every sequence the store may return for the rows of the bag B under a sort
\* whose strict order is Before. Rows that tie are returned in any order.
OrderedResults(B, Before(_, _)) ==
    LET RECURSIVE go(_)
        go(R) ==
            IF DOMAIN R = {} THEN {<<>>}
            ELSE LET first == {v \in DOMAIN R : \A w \in DOMAIN R : ~Before(w, v)}
                 IN  UNION {{<<v>> \o t :
                                t \in go(IF R[v] = 1
                                         THEN [w \in DOMAIN R \ {v} |-> R[w]]
                                         ELSE [R EXCEPT ![v] = @ - 1])} :
                            v \in first}
    IN  go(B)

\* LIMIT n / $limit n
Limit(s, n) == SubSeq(s, 1, Min2(n, Len(s)))

\* The subsequence of the rows that pass Test (WHERE / $match on a sorted stream)
Filter(s, Test(_)) == SelectSeq(s, Test)

-----------------------------------------------------------------------------
(* The two stores.                                                         *)

Tables == {"movies", "persons", "ratings", "genres", "principals", "characters", "directors"}

EmptyDb == [t \in Tables |-> {}]

NoOut ==
    [q |-> "none", impl |-> "none", args |-> <<>>, err |-> FALSE,
     rows |-> <<>>, keys |-> <<>>, mrows |-> <<>>]

\* A missing document ($lookup without a match kept by preserveNullAndEmptyArrays,
\* find_one() on an empty collection) and the NULL-extended row of a LEFT JOIN.
Missing == [x \in {} |-> Null]

\* doc.name, Null when the field is missing
Fld(doc, name) == IF name \in DOMAIN doc THEN doc[name] ELSE Null

\* The rows of S whose column `name` is v: JOIN ... ON / $lookup localField, foreignField
Match(S, name, v) == {x \in S : Fld(x, name) = v}

\* LEFT JOIN / $unwind with preserveNullAndEmptyArrays
LeftMatch(S, name, v) == IF Match(S, name, v) = {} THEN {Missing} ELSE Match(S, name, v)

\* The SELECT list / the final $project
Cols(r, names) == [n \in names |-> r[n]]
ColsSeq(s, names) == [i \in DOMAIN s |-> Cols(s[i], names)]

-----------------------------------------------------------------------------
(* Loading the relational store (import_data.py). Every table keeps its    *)
(* primary key and its foreign keys (create_schema.py): a title's rows are *)
(* loaded for a title that exists. Title identifiers are opaque keys that  *)
(* no computation orders by or returns, so titles are loaded in one        *)
(* canonical order of their contents.                                      *)

Unrated == [average_rating |-> Null, num_votes |-> Null]

\* The c-th content of a title drawn from the option lists (mixed radix).
TitleKind(c, titles, years, rateds, genresets) ==
    [primary_title |-> titles[(c % Len(titles)) + 1],
     start_year |-> years[((c \div Len(titles)) % Len(years)) + 1],
     rated |-> rateds[((c \div (Len(titles) * Len(years))) % Len(rateds)) + 1],
     genres |-> genresets[(c \div (Len(titles) * Len(years) * Len(rateds))) + 1]]

\* Every content the option lists allow, in one fixed order
TitleKinds(titles, years, rateds, genresets) ==
    [c \in 1 .. (Len(titles) * Len(years) * Len(rateds) * Len(genresets)) |->
        TitleKind(c - 1, titles, years, rateds, genresets)]

\* The rows of title id with content k, per table
TitleRows(id, k) ==
    [movies |-> {[movie_id |-> id, primary_title |-> k.primary_title, start_year |-> k.start_year]},
     ratings |-> IF k.rated = Unrated THEN {}
                 ELSE {[movie_id |-> id, average_rating |-> k.rated.average_rating,
                        num_votes |-> k.rated.num_votes]},
     genres |-> {[movie_id |-> id, genre |-> g] : g \in k.genres}]

HasTitleRows(d, id, k) ==
    /\ Match(d.movies, "movie_id", id) = TitleRows(id, k).movies
    /\ Match(d.ratings, "movie_id", id) = TitleRows(id, k).ratings
    /\ Match(d.genres, "movie_id", id) = TitleRows(id, k).genres

\* import_movies, import_ratings, import_genres: one more title, of a content
\* of kinds. The stores are loaded (phase 1), copied (phase 2), then queried.
LoadTitle(kinds, max) ==
    /\ mdb = EmptyDb
    /\ out.q = "none"
    /\ Cardinality(db.movies) < max
    /\ \E c \in DOMAIN kinds :
        LET id == Cardinality(db.movies) + 1
        IN  /\ id > 1 => \E b \in 1 .. c : HasTitleRows(db, id - 1, kinds[b])
            /\ db' = [db EXCEPT !.movies = @ \cup TitleRows(id, kinds[c]).movies,
                                !.ratings = @ \cup TitleRows(id, kinds[c]).ratings,
                                !.genres = @ \cup TitleRows(id, kinds[c]).genres]
    /\ UNCHANGED <<mdb, out, indexes, run>>

\* The rows of person id with content k (name, credits, directed titles, roles)
PersonRows(id, k) ==
    [persons |-> {[person_id |-> id, name |-> k.name]},
     principals |-> {[movie_id |-> c.movie_id, person_id |-> id,
                      ordering |-> c.ordering, category |-> c.category] : c \in k.credits},
     directors |-> {[movie_id |-> m, person_id |-> id] : m \in k.directs},
     characters |-> {[movie_id |-> c.movie_id, person_id |-> id, name |-> c.name] : c \in k.roles}]

HasPersonRows(d, id, k) ==
    /\ Match(d.persons, "person_id", id) = PersonRows(id, k).persons
    /\ Match(d.principals, "person_id", id) = PersonRows(id, k).principals
    /\ Match(d.directors, "person_id", id) = PersonRows(id, k).directors
    /\ Match(d.characters, "person_id", id) = PersonRows(id, k).characters

\* The titles a person's rows refer to
PersonTitles(k) ==
    {c.movie_id : c \in k.credits} \cup k.directs \cup {c.movie_id : c \in k.roles}

\* import_persons, import_principals, import_directors, import_characters:
\* one more person, of a content of kinds, whose titles exist (FK valid rows only)
LoadPerson(kinds, max) ==
    /\ mdb = EmptyDb
    /\ out.q = "none"
    /\ Cardinality(db.persons) < max
    /\ \E c \in DOMAIN kinds :
        LET id == Cardinality(db.persons) + 1
        IN  /\ id > 1 => \E b \in 1 .. c : HasPersonRows(db, id - 1, kinds[b])
            /\ PersonTitles(kinds[c]) \subseteq {m.movie_id : m \in db.movies}
            /\ db' = [db EXCEPT !.persons = @ \cup PersonRows(id, kinds[c]).persons,
                                !.principals = @ \cup PersonRows(id, kinds[c]).principals,
                                !.directors = @ \cup PersonRows(id, kinds[c]).directors,
                                !.characters = @ \cup PersonRows(id, kinds[c]).characters]
    /\ UNCHANGED <<mdb, out, indexes, run>>

\* import_persons, import_principals, import_directors, import_characters on
\* files that hold n persons of one content more, n of counts
LoadPeople(k, counts) ==
    /\ mdb = EmptyDb
    /\ out.q = "none"
    /\ \A pe \in db.persons : pe.name # k.name
    /\ PersonTitles(k) \subseteq {m.movie_id : m \in db.movies}
    /\ \E n \in counts :
        LET ids == (Cardinality(db.persons) + 1) .. (Cardinality(db.persons) + n)
        IN  db' = [db EXCEPT !.persons = @ \cup UNION {PersonRows(id, k).persons : id \in ids},
                             !.principals = @ \cup UNION {PersonRows(id, k).principals : id \in ids},
                             !.directors = @ \cup UNION {PersonRows(id, k).directors : id \in ids},
                             !.characters = @ \cup UNION {PersonRows(id, k).characters : id \in ids}]
    /\ UNCHANGED <<mdb, out, indexes, run>>

\* import_characters run again on a changed characters.csv, between two runs
\* of migrate_flat: DELETE FROM characters, then the rows of the file whose
\* title and person exist.
ImportCharacters(files) ==
    /\ mdb # EmptyDb
    /\ out.q = "none"
    /\ \E csv \in files :
        db' = [db EXCEPT !.characters =
                  {c \in csv : /\ Match(db.movies, "movie_id", c.movie_id) # {}
                               /\ Match(db.persons, "person_id", c.person_id) # {}}]
    /\ db' # db
    /\ UNCHANGED <<mdb, out, indexes, run>>

-----------------------------------------------------------------------------
(* Copying the relational store into the document store (migrate_flat.py). *)

\* The _id the server gives a new document: fresh for every insert_many batch;
\* the rows of one batch differ by their primary key.
FreshId(m) ==
    LET used == UNION {{d._id : d \in m[t]} : t \in Tables}
    IN  IF used = {} THEN 1 ELSE 1 + CHOOSE i \in used : \A j \in used : j <= i

\* migrate_table: doc = dict(zip(colnames, row)); insert_many
MigrateTable(rows, id) == {[_id |-> id] @@ r : r \in rows}

\* main: every table, dropped first with --drop (drops: the values of --drop
\* the operator of the stores uses)
MigrateWith(drops) ==
    /\ \E drop \in drops :
        LET kept == IF drop THEN EmptyDb ELSE mdb
        IN  /\ FreshId(kept) <= MaxBatches
            /\ mdb' = [t \in Tables |-> kept[t] \cup MigrateTable(db[t], FreshId(kept))]
    /\ mdb' # mdb
    /\ out.q = "none"
    /\ UNCHANGED <<db, out, indexes, run>>

Migrate == MigrateWith(BOOLEAN)

\* migrate_flat --drop
MigrateDrop == MigrateWith({TRUE})

-----------------------------------------------------------------------------
(* Schema resolver (queries_mongo.py).                                     *)

KeyError == "KeyError"

\* _first_key returning its first candidate when none is a field of doc
FirstKeyOrDefault(doc, candidates) ==
    LET hit == {i \in DOMAIN candidates : candidates[i] \in DOMAIN doc}
    IN  IF hit = {} THEN candidates[1]
        ELSE candidates[CHOOSE i \in hit : \A j \in hit : i <= j]

\* _first_key returning the last candidate that is a field of doc
LastKey(doc, candidates) ==
    LET hit == {i \in DOMAIN candidates : candidates[i] \in DOMAIN doc}
    IN  IF hit = {} THEN KeyError
        ELSE candidates[CHOOSE i \in hit : \A j \in hit : i >= j]

\* _first_key: the first candidate that is a field of doc
FirstKey(doc, candidates) ==
    LET hit == {i \in DOMAIN candidates : candidates[i] \in DOMAIN doc}
    IN  IF hit = {} THEN KeyError
        ELSE candidates[CHOOSE i \in hit : \A j \in hit : i <= j]

\* find_one() or {}: migrate_table gives every document of a collection the
\* columns of its table, so every sample resolves alike.
FindOne(coll) == IF coll = {} THEN Missing ELSE CHOOSE d \in coll : TRUE

\* _sample_fields: the role -> field name table; a role is KeyError when the
\* sampled document has none of its candidates (_first_key raises)
SampleFields(m) ==
    LET movies == FindOne(m.movies)
        persons == FindOne(m.persons)
        ratings == FindOne(m.ratings)
        genres == FindOne(m.genres)
        principals == FindOne(m.principals)
        characters == FindOne(m.characters)
        directors == FindOne(m.directors)
        movie_id == FirstKey(movies, <<"movie_id", "id", "tconst", "_id">>)
        person_id == FirstKey(persons, <<"person_id", "id", "nconst", "_id">>)
        f == [movie_id |-> movie_id,
              person_id |-> person_id,
              movie_title |-> FirstKey(movies, <<"title", "primary_title", "name">>),
              movie_year |-> FirstKey(movies, <<"year", "start_year", "release_year">>),
              person_name |-> FirstKey(persons, <<"name", "primary_name">>),
              genres_movie_id |-> FirstKey(genres, <<"movie_id", "tconst", movie_id>>),
              genre |-> FirstKey(genres, <<"genre", "genres">>),
              ratings_movie_id |-> FirstKey(ratings, <<"movie_id", "tconst", movie_id>>),
              avg_rating |-> FirstKey(ratings, <<"average_rating", "avg_rating", "rating">>),
              num_votes |-> FirstKey(ratings, <<"num_votes", "votes", "number_of_votes">>),
              principals_movie_id |-> FirstKey(principals, <<"movie_id", "tconst", movie_id>>),
              principals_person_id |-> FirstKey(principals, <<"person_id", "nconst", person_id>>),
              principals_category |-> FirstKey(principals, <<"category", "role", "job">>),
              characters_movie_id |->
                  IF DOMAIN characters # {}
                  THEN FirstKey(characters, <<"movie_id", "tconst", movie_id>>)
                  ELSE movie_id,
              characters_person_id |->
                  IF DOMAIN characters # {}
                  THEN FirstKey(characters, <<"person_id", "nconst", person_id>>)
                  ELSE person_id,
              character_name |->
                  IF DOMAIN characters # {}
                  THEN FirstKey(characters, <<"character", "characters", "name">>)
                  ELSE "character",
              directors_movie_id |-> FirstKey(directors, <<"movie_id", "tconst", movie_id>>),
              directors_person_id |-> FirstKey(directors, <<"person_id", "nconst", person_id>>)]
    IN  f

\* Whether _sample_fields returned (no _first_key raised)
Resolved(f) == \A role \in DOMAIN f : f[role] # KeyError

-----------------------------------------------------------------------------
(* Q7: the three best titles of every genre.                               *)

\* ORDER BY genre, average_rating DESC, num_votes DESC, title ASC
Q7Before(a, b) ==
    Lex(<<CmpStr(a.genre, b.genre),
          CmpInt(b.average_rating, a.average_rating),
          CmpInt(b.num_votes, a.num_votes),
          CmpStr(a.primary_title, b.primary_title)>>) < 0

\* ROW_NUMBER() OVER (PARTITION BY genre) / $unwind includeArrayIndex + 1
Q7Rank(s, i) == Cardinality({j \in 1 .. i : s[j].genre = s[i].genre})

Q7Top4(s) ==
    LET ranked == [i \in DOMAIN s |-> [rank |-> Q7Rank(s, i)] @@ s[i]]
    IN  Filter(ranked, LAMBDA r : r.rank <= 4)

\* WHERE rank <= 3 / $slice: ["$items", 3]
Q7Top3(s) ==
    LET ranked == [i \in DOMAIN s |-> [rank |-> Q7Rank(s, i)] @@ s[i]]
    IN  Filter(ranked, LAMBDA r : r.rank <= 3)

\* queries.py query_top3_by_genre, with the num_votes the rows were ranked by
Q7Row(j) ==
    [genre |-> j.g.genre,
     primary_title |-> j.m.primary_title,
     start_year |-> j.m.start_year,
     average_rating |-> j.r.average_rating,
     num_votes |-> j.r.num_votes]

query_top3_by_genre_ranked(d) ==
    LET joined == UNION {UNION {{[g |-> g, m |-> m, r |-> r] :
                        r \in Match(d.ratings, "movie_id", g.movie_id)} :
                        m \in Match(d.movies, "movie_id", g.movie_id)} :
                        g \in d.genres}
    IN  {Q7Top3(s) : s \in OrderedResults(BagOf(joined, Q7Row), Q7Before)}

Q7Columns == {"genre", "rank", "primary_title", "start_year", "average_rating"}

query_top3_by_genre(d) == {ColsSeq(s, Q7Columns) : s \in query_top3_by_genre_ranked(d)}

\* compare_performance.py mongo_q7_top3_by_genre
mongo_q7_top3_by_genre_ranked(m) ==
    LET joined == UNION {UNION {{[g |-> g, m |-> mv, r |-> r] :
                        r \in Match(m.ratings, "movie_id", g.movie_id)} :
                        mv \in Match(m.movies, "movie_id", g.movie_id)} :
                        g \in m.genres}
    IN  {Q7Top3(s) : s \in OrderedResults(BagOf(joined, Q7Row), Q7Before)}

mongo_q7_top3_by_genre(m) == {ColsSeq(s, Q7Columns) : s \in mongo_q7_top3_by_genre_ranked(m)}

\* queries_mongo.py q7_top3_per_genre: ratings joined with
\* preserveNullAndEmptyArrays, field names f from the resolver
Q7RobustBefore(a, b) ==
    Lex(<<CmpStr(a.genre, b.genre),
          CmpInt(b.average_rating, a.average_rating),
          CmpInt(b.num_votes, a.num_votes),
          CmpStr(a.title, b.title)>>) < 0

Q7RobustPipeline(m, f) ==
    LET joined == UNION {UNION {{[g |-> g, m |-> mv, r |-> r] :
                        r \in LeftMatch(m.ratings, f.ratings_movie_id, g[f.genres_movie_id])} :
                        mv \in Match(m.movies, f.movie_id, g[f.genres_movie_id])} :
                        g \in m.genres}
        row(j) == [genre |-> Fld(j.g, f.genre),
                   title |-> Fld(j.m, f.movie_title),
                   year |-> Fld(j.m, f.movie_year),
                   average_rating |-> Fld(j.r, f.avg_rating),
                   num_votes |-> Fld(j.r, f.num_votes)]
    IN  {Q7Top3(s) : s \in OrderedResults(BagOf(joined, row), Q7RobustBefore)}

q7_top3_per_genre(m) == Q7RobustPipeline(m, SampleFields(m))

-----------------------------------------------------------------------------
(* Q2: the n best titles of a genre in a range of years.                   *)

\* start_year BETWEEN ? AND ? / $gte, $lte: a NULL year matches no range
InYears(y, year_start, year_end) == y # Null /\ year_start <= y /\ y <= year_end

\* ORDER BY average_rating DESC, num_votes DESC, primary_title ASC
Q2Before(a, b) ==
    Lex(<<CmpInt(b.average_rating, a.average_rating),
          CmpInt(b.num_votes, a.num_votes),
          CmpStr(a.primary_title, b.primary_title)>>) < 0

Q2Row(j) ==
    [primary_title |-> j.m.primary_title,
     start_year |-> j.m.start_year,
     average_rating |-> j.r.average_rating,
     num_votes |-> j.r.num_votes]

\* queries.py query_top_n_movies
query_top_n_movies(d, genre, start_year, end_year, n) ==
    LET joined == UNION {UNION {{[g |-> g, m |-> m, r |-> r] :
                        r \in Match(d.ratings, "movie_id", m.movie_id)} :
                        m \in {x \in Match(d.movies, "movie_id", g.movie_id) :
                                  InYears(x.start_year, start_year, end_year)}} :
                        g \in Match(d.genres, "genre", genre)}
    IN  {Limit(s, n) : s \in OrderedResults(BagOf(joined, Q2Row), Q2Before)}

\* compare_performance.py mongo_q2_top_n_movies
mongo_q2_top_n_movies(m, genre, start_year, end_year, n) ==
    LET joined == UNION {UNION {{[g |-> g, m |-> mv, r |-> r] :
                        r \in Match(m.ratings, "movie_id", g.movie_id)} :
                        mv \in {x \in Match(m.movies, "movie_id", g.movie_id) :
                                   InYears(x.start_year, start_year, end_year)}} :
                        g \in Match(m.genres, "genre", genre)}
    IN  {Limit(s, n) : s \in OrderedResults(BagOf(joined, Q2Row), Q2Before)}

\* $sort: average_rating -1, num_votes -1, title 1
Q2RobustBefore(a, b) ==
    Lex(<<CmpInt(b.average_rating, a.average_rating),
          CmpInt(b.num_votes, a.num_votes),
          CmpStr(a.title, b.title)>>) < 0

\* queries_mongo.py q2_top_n_films: ratings joined with
\* preserveNullAndEmptyArrays, field names f from the resolver
Q2RobustPipeline(m, f, genre, year_start, year_end, n) ==
    LET joined == UNION {UNION {{[g |-> g, m |-> mv, r |-> r] :
                        r \in LeftMatch(m.ratings, f.ratings_movie_id, g[f.genres_movie_id])} :
                        mv \in {x \in Match(m.movies, f.movie_id, g[f.genres_movie_id]) :
                                   InYears(Fld(x, f.movie_year), year_start, year_end)}} :
                        g \in Match(m.genres, f.genre, genre)}
        row(j) == [title |-> Fld(j.m, f.movie_title),
                   year |-> Fld(j.m, f.movie_year),
                   average_rating |-> Fld(j.r, f.avg_rating),
                   num_votes |-> Fld(j.r, f.num_votes)]
    IN  {Limit(s, n) : s \in OrderedResults(BagOf(joined, row), Q2RobustBefore)}

q2_top_n_films(m, genre, year_start, year_end, n) ==
    Q2RobustPipeline(m, SampleFields(m), genre, year_start, year_end, n)

-----------------------------------------------------------------------------
(* Q8: persons with titles below and titles at or above a vote threshold.  *)

\* num_votes >= 200000 in queries.py; the default threshold of both pipelines
VoteThreshold == 200000

\* limit of q8_breakthrough_people
Q8Limit == 50

\* MIN(...) / $min and MAX(...) / $max skip NULL; NULL when nothing is left
MinOf(S) == IF S \ {Null} = {} THEN Null ELSE CHOOSE x \in S \ {Null} : \A y \in S \ {Null} : x <= y
MaxOf(S) == IF S \ {Null} = {} THEN Null ELSE CHOOSE x \in S \ {Null} : \A y \in S \ {Null} : x >= y

\* principals JOIN movies JOIN ratings, one element per joined row
Q8Joined(S, pid, mid, rid) ==
    UNION {UNION {{[p |-> p, m |-> m, r |-> r] :
              r \in Match(S.ratings, rid, p[pid])} :
              m \in Match(S.movies, mid, p[pid])} :
              p \in S.principals}

\* GROUP BY person_id: the aggregates of one person's joined rows
Q8Stats(J, person, pid, year, votes, threshold) ==
    LET mine == {j \in J : j.p[pid] = person}
        low == {j \in mine : Fld(j.r, votes) < threshold}
        high == {j \in mine : Fld(j.r, votes) >= threshold}
    IN  [person_id |-> person,
         low_count |-> Cardinality(low),
         high_count |-> Cardinality(high),
         breakthrough_year |-> MinOf({Fld(j.m, year) : j \in high}),
         max_low_year |-> MaxOf({Fld(j.m, year) : j \in low})]

\* ORDER BY high_count DESC, breakthrough_year
Q8Before(a, b) ==
    Lex(<<CmpInt(b.high_count, a.high_count),
          CmpInt(a.breakthrough_year, b.breakthrough_year)>>) < 0

Q8Row(j) ==
    [person_id |-> j.g.person_id,
     name |-> j.pe.name,
     low_count |-> j.g.low_count,
     high_count |-> j.g.high_count,
     breakthrough_year |-> j.g.breakthrough_year]

Q8Columns == {"name", "low_count", "high_count", "breakthrough_year"}

Q8Keys == Q8Columns \cup {"person_id"}

\* queries.py query_career_boost, the rows cut to the columns cols
Q8Sql(d, cols) ==
    LET J == Q8Joined(d, "movie_id", "movie_id", "movie_id")
        stats == {Q8Stats(J, j.p.person_id, "person_id", "start_year", "num_votes", VoteThreshold) :
                     j \in {x \in J : Match(d.persons, "person_id", x.p.person_id) # {}}}
        kept == {g \in stats : g.low_count > 0 /\ g.high_count > 0}
        named == UNION {{[g |-> g, pe |-> pe] : pe \in Match(d.persons, "person_id", g.person_id)} :
                           g \in kept}
    IN  OrderedResults(BagOf(named, LAMBDA j : Cols(Q8Row(j), cols)), Q8Before)

query_career_boost(d) == Q8Sql(d, Q8Columns)

\* The same rows with the person_id of each
query_career_boost_keyed(d) == Q8Sql(d, Q8Keys)

\* compare_performance.py mongo_q8_career_boost_fast2, the rows cut to the columns cols
Q8Fast(m, threshold, cols) ==
    LET J == Q8Joined(m, "movie_id", "movie_id", "movie_id")
        stats == {Q8Stats(J, j.p.person_id, "person_id", "start_year", "num_votes", threshold) :
                     j \in J}
        kept == {g \in stats : g.low_count > 0 /\ g.high_count > 0}
        named == UNION {{[g |-> g, pe |-> pe] : pe \in Match(m.persons, "person_id", g.person_id)} :
                           g \in kept}
    IN  OrderedResults(BagOf(named, LAMBDA j : Cols(Q8Row(j), cols)), Q8Before)

mongo_q8_career_boost_fast2(m, threshold) == Q8Fast(m, threshold, Q8Columns)

mongo_q8_career_boost_fast2_keyed(m, threshold) == Q8Fast(m, threshold, Q8Keys)

\* $sort: highCount -1, lowCount -1, person 1
Q8RobustBefore(a, b) ==
    Lex(<<CmpInt(b.highCount, a.highCount),
          CmpInt(b.lowCount, a.lowCount),
          CmpStr(a.person, b.person)>>) < 0

Q8RobustColumns == {"person", "lowCount", "highCount", "maxLowYear", "minHighYear"}

\* queries_mongo.py q8_breakthrough_people, field names f from the resolver,
\* with the person_id of every row. $lt compares in BSON order, null first.
Q8RobustPipeline(m, f, threshold_votes, limit) ==
    LET J == Q8Joined(m, f.principals_movie_id, f.movie_id, f.ratings_movie_id)
        stats == {Q8Stats(J, j.p[f.principals_person_id], f.principals_person_id,
                          f.movie_year, f.num_votes, threshold_votes) : j \in J}
        kept == {g \in stats : /\ g.high_count > 0
                               /\ g.low_count > 0
                               /\ g.max_low_year < g.breakthrough_year}
        named == UNION {{[g |-> g, pe |-> pe] : pe \in Match(m.persons, f.person_id, g.person_id)} :
                           g \in kept}
        row(j) == [person_id |-> j.g.person_id,
                   person |-> Fld(j.pe, f.person_name),
                   lowCount |-> j.g.low_count,
                   highCount |-> j.g.high_count,
                   maxLowYear |-> j.g.max_low_year,
                   minHighYear |-> j.g.breakthrough_year]
    IN  {Limit(s, limit) : s \in OrderedResults(BagOf(named, row), Q8RobustBefore)}

q8_breakthrough_people_keyed(m, threshold_votes, limit) ==
    Q8RobustPipeline(m, SampleFields(m), threshold_votes, limit)

q8_breakthrough_people(m, threshold_votes, limit) ==
    {ColsSeq(s, Q8RobustColumns) : s \in q8_breakthrough_people_keyed(m, threshold_votes, limit)}

-----------------------------------------------------------------------------
(* Q3: persons playing several characters in one title.                    *)

\* limit of mongo_q3_multi_role_actors_fast and of q3_multi_role_actors
Q3FastLimit == 200
Q3Limit == 50

Range(s) == {s[i] : i \in DOMAIN s}

\* GROUP BY person_id, movie_id / $group _id: {movie_id, person_id}
Q3Groups(chars, mid, pid) ==
    {[movie_id |-> Fld(c, mid), person_id |-> Fld(c, pid)] : c \in chars}

Q3Members(chars, mid, pid, g) ==
    {c \in chars : Fld(c, mid) = g.movie_id /\ Fld(c, pid) = g.person_id}

\* group JOIN persons JOIN movies, one element per joined row
Q3Named(S, groups, pid, mid) ==
    UNION {UNION {{[g |-> g, pe |-> pe, m |-> m] :
              m \in Match(S.movies, mid, g.movie_id)} :
              pe \in Match(S.persons, pid, g.person_id)} :
              g \in groups}

\* ORDER BY nb_roles DESC, name ASC
Q3Before(a, b) ==
    Lex(<<CmpInt(b.nb_roles, a.nb_roles), CmpStr(a.name, b.name)>>) < 0

Q3Row(j) ==
    [movie_id |-> j.g.movie_id,
     person_id |-> j.g.person_id,
     name |-> j.pe.name,
     primary_title |-> j.m.primary_title,
     start_year |-> j.m.start_year,
     nb_roles |-> j.g.nb_roles]

Q3Columns == {"name", "primary_title", "start_year", "nb_roles"}

Q3Keys == Q3Columns \cup {"movie_id", "person_id"}

\* queries.py query_multi_role_actors, the rows cut to the columns cols
Q3Sql(d, cols) ==
    LET groups == {[nb_roles |-> Cardinality({c.name : c \in
                                      Q3Members(d.characters, "movie_id", "person_id", g)})] @@ g :
                      g \in Q3Groups(d.characters, "movie_id", "person_id")}
        kept == {g \in groups : g.nb_roles > 1}
    IN  OrderedResults(BagOf(Q3Named(d, kept, "person_id", "movie_id"),
                             LAMBDA j : Cols(Q3Row(j), cols)), Q3Before)

query_multi_role_actors(d) == Q3Sql(d, Q3Columns)

\* The same rows with the (title, person) group of each
query_multi_role_actors_keyed(d) == Q3Sql(d, Q3Keys)

\* compare_performance.py mongo_q3_multi_role_actors_fast, the rows cut to the
\* columns cols: nb_roles is $sum: 1, the groups are cut to limit before the lookups
Q3Fast(m, limit, cols) ==
    LET groups == {[nb_roles |-> Cardinality(Q3Members(m.characters, "movie_id", "person_id", g))] @@ g :
                      g \in Q3Groups(m.characters, "movie_id", "person_id")}
        kept == {g \in groups : g.nb_roles > 1}
        tops == IF Cardinality(kept) <= limit THEN {kept}
                ELSE {Range(Limit(s, limit)) :
                         s \in OrderedResults(BagOf(kept, LAMBDA g : g),
                                              LAMBDA a, b : a.nb_roles > b.nb_roles)}
    IN  UNION {OrderedResults(BagOf(Q3Named(m, top, "person_id", "movie_id"),
                                    LAMBDA j : Cols(Q3Row(j), cols)), Q3Before) : top \in tops}

mongo_q3_multi_role_actors_fast(m, limit) == Q3Fast(m, limit, Q3Columns)

mongo_q3_multi_role_actors_fast_keyed(m, limit) == Q3Fast(m, limit, Q3Keys)

\* $sort: role_count -1, actor 1, year -1
Q3RobustBefore(a, b) ==
    Lex(<<CmpInt(b.role_count, a.role_count),
          CmpStr(a.actor, b.actor),
          CmpInt(b.year, a.year)>>) < 0

Q3RobustColumns == {"actor", "title", "year", "role_count", "roles"}

\* queries_mongo.py q3_multi_role_actors, field names f from the resolver, with
\* the group of every row: roles is $addToSet (a set, in no specified order)
Q3RobustPipeline(m, f, limit) ==
    LET groups == {[roles |-> {Fld(c, f.character_name) : c \in
                                 Q3Members(m.characters, f.characters_movie_id,
                                           f.characters_person_id, g)}] @@ g :
                      g \in Q3Groups(m.characters, f.characters_movie_id, f.characters_person_id)}
        kept == {g \in groups : Cardinality(g.roles) >= 2}
        row(j) == [movie_id |-> j.g.movie_id,
                   person_id |-> j.g.person_id,
                   actor |-> Fld(j.pe, f.person_name),
                   title |-> Fld(j.m, f.movie_title),
                   year |-> Fld(j.m, f.movie_year),
                   role_count |-> Cardinality(j.g.roles),
                   roles |-> j.g.roles]
    IN  {Limit(s, limit) :
            s \in OrderedResults(BagOf(Q3Named(m, kept, f.person_id, f.movie_id), row),
                                 Q3RobustBefore)}

q3_multi_role_actors_keyed(m, limit) == Q3RobustPipeline(m, SampleFields(m), limit)

q3_multi_role_actors(m, limit) ==
    {ColsSeq(s, Q3RobustColumns) : s \in q3_multi_role_actors_keyed(m, limit)}

-----------------------------------------------------------------------------
(* Persons by name, and the computations on one actor: Q1, Q4, Q6.         *)

\* limit of _find_person_ids
PersonLimit == 20

\* LIKE and $options: "i" fold the case of ASCII letters
Lower(c) == IF c >= 65 /\ c <= 90 THEN c + 32 ELSE c
Fold(str) == [i \in DOMAIN str |-> Lower(str[i])]

\* name LIKE '%actor_name%' / $regex: actor_name, for a name without wildcards
Contains(str, part) ==
    \E i \in 0 .. (Len(str) - Len(part)) :
        Fold(SubSeq(str, i + 1, i + Len(part))) = Fold(part)

\* The subsets of S with k elements
RECURSIVE KSubsets(_, _)
KSubsets(S, k) ==
    IF k = 0 THEN {{}}
    ELSE UNION {{D \cup {x} : D \in KSubsets(S \ {x}, k - 1)} : x \in S}

\* compare_performance.py _find_person_ids: the person_id of at most limit
\* matching documents, whichever the cursor yields first
find_person_ids(m, name, limit) ==
    LET docs == {d \in m.persons : Contains(d.name, name)}
    IN  IF Cardinality(docs) <= limit
        THEN {{d.person_id : d \in docs}}
        ELSE {{d.person_id : d \in docs \ D} : D \in KSubsets(docs, Cardinality(docs) - limit)}

\* WHERE pe.name LIKE ?
LikePersonIds(d, actor_name) == {pe.person_id : pe \in {x \in d.persons : Contains(x.name, actor_name)}}

\* category IN ('actor', 'actress') for the persons of ids
ActingCredits(S, ids) ==
    {p \in S.principals : p.person_id \in ids /\ p.category \in {"actor", "actress"}}

\* ORDER BY start_year DESC, primary_title ASC
Q1Before(a, b) ==
    Lex(<<CmpInt(b.start_year, a.start_year), CmpStr(a.primary_title, b.primary_title)>>) < 0

Q1Row(j) ==
    [primary_title |-> j.m.primary_title,
     start_year |-> j.m.start_year,
     character |-> IF "name" \in DOMAIN j.c THEN j.c.name ELSE NullText,
     average_rating |-> Fld(j.r, "average_rating")]

\* credits JOIN movies LEFT JOIN characters LEFT JOIN ratings, one element per joined row
Q1Joined(S, credits) ==
    UNION {UNION {UNION {{[p |-> p, m |-> m, c |-> c, r |-> r] :
              r \in LeftMatch(S.ratings, "movie_id", p.movie_id)} :
              c \in LeftMatch(Match(S.characters, "movie_id", p.movie_id), "person_id", p.person_id)} :
              m \in Match(S.movies, "movie_id", p.movie_id)} :
              p \in credits}

\* queries.py query_actor_filmography
query_actor_filmography(d, actor_name) ==
    LET credits == {p \in ActingCredits(d, LikePersonIds(d, actor_name)) :
                       Match(d.persons, "person_id", p.person_id) # {}}
    IN  OrderedResults(BagOf(Q1Joined(d, credits), Q1Row), Q1Before)

\* compare_performance.py mongo_q1_actor_filmography
mongo_q1_actor_filmography(m, actor_name) ==
    UNION {IF person_ids = {} THEN {<<>>}
           ELSE OrderedResults(BagOf(Q1Joined(m, ActingCredits(m, person_ids)), Q1Row), Q1Before) :
           person_ids \in find_person_ids(m, actor_name, PersonLimit)}

\* limit(10) of the persons q1_actor_filmography looks for
Q1RobustLimit == 10

\* $sort: year -1, title 1
Q1RobustBefore(a, b) ==
    Lex(<<CmpInt(b.year, a.year), CmpStr(a.title, b.title)>>) < 0

\* queries_mongo.py q1_actor_filmography, field names f from the resolver: one
\* row per acting credit whose title exists, with the array of the names of
\* its characters (kept as the number of times each name occurs in it)
Q1RobustPipeline(m, f, actor_name) ==
    LET docs == {d \in m.persons : Contains(d[f.person_name], actor_name)}
        found == IF Cardinality(docs) <= Q1RobustLimit THEN {docs}
                 ELSE {docs \ D : D \in KSubsets(docs, Cardinality(docs) - Q1RobustLimit)}
        chars(p) == {c \in m.characters :
                        /\ c[f.characters_movie_id] = p[f.principals_movie_id]
                        /\ c[f.characters_person_id] = p[f.principals_person_id]}
        names(p) == [n \in {c[f.character_name] : c \in chars(p)} |->
                        Cardinality({c \in chars(p) : c[f.character_name] = n})]
        credits(people) ==
            {p \in m.principals :
                /\ p[f.principals_person_id] \in {d[f.person_id] : d \in people}
                /\ p[f.principals_category] \in {"actor", "actress"}}
        joined(people) ==
            UNION {UNION {{[p |-> p, m |-> mv, r |-> r] :
                r \in LeftMatch(m.ratings, f.ratings_movie_id, p[f.principals_movie_id])} :
                mv \in Match(m.movies, f.movie_id, p[f.principals_movie_id])} :
                p \in credits(people)}
        row(j) == [title |-> Fld(j.m, f.movie_title),
                   year |-> Fld(j.m, f.movie_year),
                   average_rating |-> Fld(j.r, f.avg_rating),
                   characters |-> names(j.p)]
    IN  UNION {IF people = {} THEN {<<>>}
               ELSE OrderedResults(BagOf(joined(people), row), Q1RobustBefore) :
               people \in found}

q1_actor_filmography(m, actor_name) == Q1RobustPipeline(m, SampleFields(m), actor_name)

\* ORDER BY nb_films DESC, director_name ASC
Q4Before(a, b) ==
    Lex(<<CmpInt(b.nb_films, a.nb_films), CmpStr(a.director_name, b.director_name)>>) < 0

\* directors of the titles of movies, grouped by person: one row per person
\* document, nb_films counting the (title, directors row) pairs
Q4Directors(S, movies) ==
    LET pairs == UNION {{[am |-> am, d |-> d] : d \in Match(S.directors, "movie_id", am)} :
                           am \in movies}
        groups == {[person_id |-> x.d.person_id,
                    nb_films |-> Cardinality({y \in pairs : y.d.person_id = x.d.person_id})] :
                      x \in pairs}
    IN  UNION {{[g |-> g, pe |-> pe] : pe \in Match(S.persons, "person_id", g.person_id)} :
                  g \in groups}

Q4Row(j) == [director_name |-> j.pe.name, nb_films |-> j.g.nb_films]

\* queries.py query_collaborations: COUNT(*) over actor_movies JOIN directors JOIN persons
query_collaborations(d, actor_name) ==
    LET actor_movies == {p.movie_id : p \in {x \in ActingCredits(d, LikePersonIds(d, actor_name)) :
                                                Match(d.movies, "movie_id", x.movie_id) # {}}}
    IN  OrderedResults(BagOf(Q4Directors(d, actor_movies), Q4Row), Q4Before)

\* compare_performance.py mongo_q4_collaborations
mongo_q4_collaborations(m, actor_name) ==
    UNION {IF person_ids = {} THEN {<<>>}
           ELSE OrderedResults(BagOf(Q4Directors(m, {p.movie_id : p \in ActingCredits(m, person_ids)}),
                                     Q4Row), Q4Before) :
           person_ids \in find_person_ids(m, actor_name, PersonLimit)}

-----------------------------------------------------------------------------
(* Averages, and the computations Q6, Q5 and Q9.                           *)

RECURSIVE Gcd(_, _)
Gcd(a, b) == IF b = 0 THEN a ELSE Gcd(b, a % b)

RECURSIVE SumFn(_, _)
SumFn(S, f) ==
    IF S = {} THEN 0
    ELSE LET x == CHOOSE y \in S : TRUE IN f[x] + SumFn(S \ {x}, f)

\* AVG(...) / $avg over the elements of S, skipping NULL: an exact fraction
\* in lowest terms, NULL (over 1) when no element has a value
Average(S, Val(_)) ==
    LET valued == {x \in S : Val(x) # Null}
        total == SumFn(valued, [x \in valued |-> Val(x)])
        g == Gcd(total, Cardinality(valued))
    IN  IF valued = {} THEN [num |-> Null, den |-> 1]
        ELSE [num |-> total \div g, den |-> Cardinality(valued) \div g]

CmpAvg(a, b) == CmpInt(a.num * b.den, b.num * a.den)

\* SQLite integer division truncates toward zero
TruncDiv(a, b) == IF a >= 0 THEN a \div b ELSE -((-a) \div b)

\* (start_year / 10) * 10
SqlDecade(y) == TruncDiv(y, 10) * 10

\* $multiply: [$floor: [$divide: [start_year, 10]], 10]
MongoDecade(y) == (y \div 10) * 10

\* The value the rating row r of a LEFT JOIN / a preserved $unwind gives to an
\* average when the operand is read as 0 where it is absent
RatingOrZero(r) == IF "average_rating" \in DOMAIN r THEN r.average_rating ELSE 0

\* The operand of AVG(average_rating) / $avg: "$r.average_rating" for the
\* rating row r of a title: NULL / missing when the title has no rating
RatingValue(r) == Fld(r, "average_rating")

\* GROUP BY decade over the (title, rating) rows; ORDER BY decade
Q6Decades(rows, Decade(_)) ==
    LET groups == {[decade |-> Decade(x.start_year),
                    nb_films |-> Cardinality({y \in rows : Decade(y.start_year) = Decade(x.start_year)}),
                    avg_rating |-> Average({y \in rows : Decade(y.start_year) = Decade(x.start_year)},
                                           LAMBDA y : RatingValue(y.r))] :
                      x \in rows}
    IN  OrderedResults(BagOf(groups, LAMBDA g : g), LAMBDA a, b : a.decade < b.decade)

\* queries.py query_career_evolution
query_career_evolution(d, actor_name) ==
    LET actor_movies == {[movie_id |-> m.movie_id, start_year |-> m.start_year] :
                            m \in {x \in d.movies :
                                      /\ x.start_year # Null
                                      /\ \E p \in ActingCredits(d, LikePersonIds(d, actor_name)) :
                                            p.movie_id = x.movie_id}}
        actor_ratings == UNION {{[movie_id |-> am.movie_id, start_year |-> am.start_year, r |-> r] :
                                    r \in LeftMatch(d.ratings, "movie_id", am.movie_id)} :
                                    am \in actor_movies}
    IN  Q6Decades(actor_ratings, SqlDecade)

\* compare_performance.py mongo_q6_career_evolution. $first takes the year of
\* one of the documents of a title; they all carry the year of the one row
\* of movies they were copied from.
mongo_q6_career_evolution(m, actor_name) ==
    UNION {IF person_ids = {} THEN {<<>>}
           ELSE LET credited == UNION {{[p |-> p, m |-> mv] :
                                   mv \in {x \in Match(m.movies, "movie_id", p.movie_id) :
                                              x.start_year # Null}} :
                                   p \in ActingCredits(m, person_ids)}
                    titles == {[movie_id |-> c.p.movie_id,
                                start_year |-> (CHOOSE x \in credited :
                                                   x.p.movie_id = c.p.movie_id).m.start_year] :
                                  c \in credited}
                    rated == UNION {{[movie_id |-> t.movie_id, start_year |-> t.start_year, r |-> r] :
                                       r \in LeftMatch(m.ratings, "movie_id", t.movie_id)} :
                                       t \in titles}
                IN  Q6Decades(rated, MongoDecade) :
           person_ids \in find_person_ids(m, actor_name, PersonLimit)}

\* HAVING AVG(r.average_rating) > 7.0 AND COUNT(*) > 50, ratings in tenths
Q5MinRating == 70
Q5MinFilms == 50

\* HAVING AVG(r.average_rating) >= 7.0 AND COUNT(*) >= 50
Q5HavingAtLeast(g) ==
    /\ g.avg_rating.num >= Q5MinRating * g.avg_rating.den
    /\ g.nb_films >= Q5MinFilms

\* HAVING AVG(r.average_rating) > 7.0 AND COUNT(*) > 50 /
\* $match: avg_rating $gt 7.0, nb_films $gt 50
Q5Having(g) ==
    /\ g.avg_rating.num > Q5MinRating * g.avg_rating.den
    /\ g.nb_films > Q5MinFilms

\* queries.py query_popular_genres and compare_performance.py
\* mongo_q5_popular_genres: the same join, grouping, filter and order
Q5Genres(S) ==
    LET joined == UNION {{[g |-> g, r |-> r] : r \in Match(S.ratings, "movie_id", g.movie_id)} :
                            g \in S.genres}
        groups == {[genre |-> genre,
                    nb_films |-> Cardinality({y \in joined : y.g.genre = genre}),
                    avg_rating |-> Average({y \in joined : y.g.genre = genre},
                                           LAMBDA y : y.r.average_rating)] :
                      genre \in {x.g.genre : x \in joined}}
        kept == {g \in groups : Q5Having(g)}
    IN  OrderedResults(BagOf(kept, LAMBDA g : g),
                       LAMBDA a, b : CmpAvg(a.avg_rating, b.avg_rating) > 0)

query_popular_genres(d) == Q5Genres(d)

mongo_q5_popular_genres(m) == Q5Genres(m)

\* make_queries and mongo_specs: min_genres=3, limit=50
Q9MinGenres == 3
Q9Limit == 50

\* ORDER BY nb_genres DESC, nb_movies DESC, name ASC
Q9Before(a, b) ==
    Lex(<<CmpInt(b.nb_genres, a.nb_genres),
          CmpInt(b.nb_movies, a.nb_movies),
          CmpStr(a.name, b.name)>>) < 0

Q9Row(j) == [name |-> j.pe.name, nb_genres |-> j.g.nb_genres, nb_movies |-> j.g.nb_movies]

\* The distinct genres and titles of every acting person, over the credits
\* whose title passes HasTitle
Q9Groups(S, HasTitle(_)) ==
    LET joined == UNION {{[p |-> p, g |-> g] : g \in Match(S.genres, "movie_id", p.movie_id)} :
                            p \in {x \in S.principals : /\ x.category \in {"actor", "actress"}
                                                        /\ HasTitle(x.movie_id)}}
    IN  {[person_id |-> x.p.person_id,
          nb_genres |-> Cardinality({y.g.genre : y \in {z \in joined : z.p.person_id = x.p.person_id}}),
          nb_movies |-> Cardinality({y.g.movie_id : y \in {z \in joined : z.p.person_id = x.p.person_id}})] :
            x \in joined}

Q9Named(S, groups, min_genres) ==
    UNION {{[g |-> g, pe |-> pe] : pe \in Match(S.persons, "person_id", g.person_id)} :
              g \in {x \in groups : x.nb_genres >= min_genres}}

\* queries.py query_most_versatile_actors
query_most_versatile_actors(d, min_genres, limit) ==
    LET groups == Q9Groups(d, LAMBDA id : Match(d.movies, "movie_id", id) # {})
    IN  {Limit(s, limit) : s \in OrderedResults(BagOf(Q9Named(d, groups, min_genres), Q9Row), Q9Before)}

\* compare_performance.py mongo_q9_most_versatile_actors: no lookup of movies
mongo_q9_most_versatile_actors(m, min_genres, limit) ==
    LET groups == Q9Groups(m, LAMBDA id : TRUE)
    IN  {Limit(s, limit) : s \in OrderedResults(BagOf(Q9Named(m, groups, min_genres), Q9Row), Q9Before)}

-----------------------------------------------------------------------------
(* queries_mongo.py: Q4, Q6 and the computation registered as Q9.          *)

\* limit(10) of the persons q4_director_collaborations and
\* q6_career_by_decade look for
RobustPersonLimit == 10

\* persons.find({name: {$regex, $options: "i"}}).limit(10): the documents the
\* cursor can yield
FoundPeople(m, f, actor_name) ==
    LET docs == {d \in m.persons : Contains(d[f.person_name], actor_name)}
    IN  IF Cardinality(docs) <= RobustPersonLimit THEN {docs}
        ELSE {docs \ D : D \in KSubsets(docs, Cardinality(docs) - RobustPersonLimit)}

\* $match on principals: the acting credits of the persons found
RobustCredits(m, f, people) ==
    {p \in m.principals :
        /\ p[f.principals_person_id] \in {d[f.person_id] : d \in people}
        /\ p[f.principals_category] \in {"actor", "actress"}}

\* $sort: films_together -1, director 1
Q4RobustBefore(a, b) ==
    Lex(<<CmpInt(b.films_together, a.films_together), CmpStr(a.director, b.director)>>) < 0

\* queries_mongo.py q4_director_collaborations, field names f from the resolver
Q4RobustPipeline(m, f, actor_name, limit) ==
    LET pairs(people) ==
            UNION {{[am |-> am, d |-> d] : d \in Match(m.directors, f.directors_movie_id, am)} :
                      am \in {p[f.principals_movie_id] : p \in RobustCredits(m, f, people)}}
        groups(people) ==
            {[person_id |-> id,
              films_together |-> Cardinality({y \in pairs(people) : y.d[f.directors_person_id] = id})] :
                id \in {x.d[f.directors_person_id] : x \in pairs(people)}}
        named(people) ==
            UNION {{[g |-> g, pe |-> pe] : pe \in Match(m.persons, f.person_id, g.person_id)} :
                      g \in groups(people)}
        row(j) == [director |-> j.pe[f.person_name], films_together |-> j.g.films_together]
    IN  UNION {IF people = {} THEN {<<>>}
               ELSE {Limit(s, limit) : s \in OrderedResults(BagOf(named(people), row), Q4RobustBefore)} :
               people \in FoundPeople(m, f, actor_name)}

q4_director_collaborations(m, actor_name, limit) ==
    Q4RobustPipeline(m, SampleFields(m), actor_name, limit)

\* $multiply: [$floor: [$divide: [year, 10]], 10]: null when the year is null
RobustDecade(y) == IF y = Null THEN Null ELSE MongoDecade(y)

\* queries_mongo.py q6_career_by_decade, field names f from the resolver: the
\* groups are made of the (credit, title, rating) documents; $sort decade 1
\* puts null first
Q6RobustPipeline(m, f, actor_name) ==
    LET joined(people) ==
            UNION {UNION {{[p |-> p, m |-> mv, r |-> r] :
                r \in LeftMatch(m.ratings, f.ratings_movie_id, p[f.principals_movie_id])} :
                mv \in Match(m.movies, f.movie_id, p[f.principals_movie_id])} :
                p \in RobustCredits(m, f, people)}
        decade(j) == RobustDecade(Fld(j.m, f.movie_year))
        groups(people) ==
            {[decade |-> dc,
              film_count |-> Cardinality({y \in joined(people) : decade(y) = dc}),
              avg_rating |-> Average({y \in joined(people) : decade(y) = dc},
                                     LAMBDA y : Fld(y.r, f.avg_rating))] :
                dc \in {decade(x) : x \in joined(people)}}
    IN  UNION {IF people = {} THEN {<<>>}
               ELSE OrderedResults(BagOf(groups(people), LAMBDA g : g),
                                   LAMBDA a, b : a.decade < b.decade) :
               people \in FoundPeople(m, f, actor_name)}

q6_career_by_decade(m, actor_name) == Q6RobustPipeline(m, SampleFields(m), actor_name)

\* run_benchmarks: q9_top_directors(mdb, 20, 10)
Q9RobustMinFilms == 20
Q9RobustLimit == 10

\* $sort: avg_rating -1, film_count -1, director 1
Q9RobustBefore(a, b) ==
    Lex(<<CmpAvg(b.avg_rating, a.avg_rating),
          CmpInt(b.film_count, a.film_count),
          CmpStr(a.director, b.director)>>) < 0

\* queries_mongo.py q9_top_directors, field names f from the resolver: the
\* directors of at least min_films rated titles, by average rating (best_film,
\* the $top of a group, left out of the rows)
Q9RobustPipeline(m, f, min_films, limit) ==
    LET joined == UNION {UNION {{[d |-> d, m |-> mv, r |-> r] :
                        r \in Match(m.ratings, f.ratings_movie_id, d[f.directors_movie_id])} :
                        mv \in Match(m.movies, f.movie_id, d[f.directors_movie_id])} :
                        d \in m.directors}
        groups == {[person_id |-> id,
                    film_count |-> Cardinality({y \in joined : y.d[f.directors_person_id] = id}),
                    avg_rating |-> Average({y \in joined : y.d[f.directors_person_id] = id},
                                           LAMBDA y : Fld(y.r, f.avg_rating))] :
                      id \in {x.d[f.directors_person_id] : x \in joined}}
        named == UNION {{[g |-> g, pe |-> pe] : pe \in Match(m.persons, f.person_id, g.person_id)} :
                           g \in {x \in groups : x.film_count >= min_films}}
        row(j) == [director |-> j.pe[f.person_name], film_count |-> j.g.film_count,
                   avg_rating |-> j.g.avg_rating]
    IN  {Limit(s, limit) : s \in OrderedResults(BagOf(named, row), Q9RobustBefore)}

q9_top_directors(m, min_films, limit) == Q9RobustPipeline(m, SampleFields(m), min_films, limit)

-----------------------------------------------------------------------------
(* Executing a computation: what the caller gets back.                     *)

\* The call returned rows; keys are the rows with the columns they were sorted by.
Returned(q, impl, rows, keys) ==
    [q |-> q, impl |-> impl, args |-> <<>>, err |-> FALSE,
     rows |-> rows, keys |-> keys, mrows |-> <<>>]

\* The call raised.
Raised(q, impl) ==
    [q |-> q, impl |-> impl, args |-> <<>>, err |-> TRUE,
     rows |-> <<>>, keys |-> <<>>, mrows |-> <<>>]

\* No computation was observed yet. Computations only read the stores, so a
\* behaviour observes one call, on stores that no longer change.
Idle == out.q = "none"

RunQ7Sqlite ==
    /\ Idle
    /\ \E s \in query_top3_by_genre_ranked(db) :
        out' = Returned("Q7", "sqlite", ColsSeq(s, Q7Columns), s)
    /\ UNCHANGED <<db, mdb, indexes, run>>

RunQ7Mongo ==
    /\ Idle
    /\ \E s \in mongo_q7_top3_by_genre_ranked(mdb) :
        out' = Returned("Q7", "mongo", ColsSeq(s, Q7Columns), s)
    /\ UNCHANGED <<db, mdb, indexes, run>>

RunQ7Robust ==
    /\ Idle
    /\ IF Resolved(SampleFields(mdb))
       THEN \E s \in q7_top3_per_genre(mdb) : out' = Returned("Q7", "robust", s, s)
       ELSE out' = Raised("Q7", "robust")
    /\ UNCHANGED <<db, mdb, indexes, run>>


\* The ranges of years asked by make_queries and run_benchmarks
Q2Ranges == {<<1990, 2020>>, <<1990, 2000>>}

\* A call with arguments
WithArgs(o, args) == [o EXCEPT !.args = args]

RunQ2Sqlite ==
    /\ Idle
    /\ \E range \in Q2Ranges, n \in 1 .. MaxN :
        \E s \in query_top_n_movies(db, Drama, range[1], range[2], n) :
            out' = WithArgs(Returned("Q2", "sqlite", s, s), <<Drama, range[1], range[2], n>>)
    /\ UNCHANGED <<db, mdb, indexes, run>>

RunQ2Mongo ==
    /\ Idle
    /\ \E range \in Q2Ranges, n \in 1 .. MaxN :
        \E s \in mongo_q2_top_n_movies(mdb, Drama, range[1], range[2], n) :
            out' = WithArgs(Returned("Q2", "mongo", s, s), <<Drama, range[1], range[2], n>>)
    /\ UNCHANGED <<db, mdb, indexes, run>>

RunQ2Robust ==
    /\ Idle
    /\ \E range \in Q2Ranges, n \in 1 .. MaxN :
        IF Resolved(SampleFields(mdb))
        THEN \E s \in q2_top_n_films(mdb, Drama, range[1], range[2], n) :
                out' = WithArgs(Returned("Q2", "robust", s, s), <<Drama, range[1], range[2], n>>)
        ELSE out' = WithArgs(Raised("Q2", "robust"), <<Drama, range[1], range[2], n>>)
    /\ UNCHANGED <<db, mdb, indexes, run>>

RunQ8Sqlite ==
    /\ Idle
    /\ \E s \in query_career_boost_keyed(db) :
        out' = Returned("Q8", "sqlite", ColsSeq(s, Q8Columns), s)
    /\ UNCHANGED <<db, mdb, indexes, run>>

RunQ8Mongo ==
    /\ Idle
    /\ \E s \in mongo_q8_career_boost_fast2_keyed(mdb, VoteThreshold) :
        out' = Returned("Q8", "mongo", ColsSeq(s, Q8Columns), s)
    /\ UNCHANGED <<db, mdb, indexes, run>>

RunQ8Robust ==
    /\ Idle
    /\ IF Resolved(SampleFields(mdb))
       THEN \E s \in q8_breakthrough_people_keyed(mdb, VoteThreshold, Q8Limit) :
               out' = Returned("Q8", "robust", ColsSeq(s, Q8RobustColumns), s)
       ELSE out' = Raised("Q8", "robust")
    /\ UNCHANGED <<db, mdb, indexes, run>>

RunQ3Sqlite ==
    /\ Idle
    /\ \E s \in query_multi_role_actors_keyed(db) :
        out' = Returned("Q3", "sqlite", ColsSeq(s, Q3Columns), s)
    /\ UNCHANGED <<db, mdb, indexes, run>>

RunQ3Mongo ==
    /\ Idle
    /\ \E s \in mongo_q3_multi_role_actors_fast_keyed(mdb, Q3FastLimit) :
        out' = Returned("Q3", "mongo", ColsSeq(s, Q3Columns), s)
    /\ UNCHANGED <<db, mdb, indexes, run>>

RunQ3Robust ==
    /\ Idle
    /\ IF Resolved(SampleFields(mdb))
       THEN \E s \in q3_multi_role_actors_keyed(mdb, Q3Limit) :
               out' = Returned("Q3", "robust", ColsSeq(s, Q3RobustColumns), s)
       ELSE out' = Raised("Q3", "robust")
    /\ UNCHANGED <<db, mdb, indexes, run>>

\* compare_performance.py main: the labels of sqlite_specs and of mongo_specs
Labels == {"Q1", "Q2", "Q3", "Q4", "Q5", "Q6", "Q7", "Q8", "Q9"}

\* n of "Q2 - Top 50 Drama 1990-2020"
Q2TopN == 50

\* benchmark_sqlite.py make_queries: what the relational function of a label can return
sqlite_specs(label, d) ==
    CASE label = "Q1" -> query_actor_filmography(d, TomHanks)
      [] label = "Q2" -> query_top_n_movies(d, Drama, 1990, 2020, Q2TopN)
      [] label = "Q3" -> query_multi_role_actors(d)
      [] label = "Q4" -> query_collaborations(d, TomHanks)
      [] label = "Q5" -> query_popular_genres(d)
      [] label = "Q6" -> query_career_evolution(d, TomHanks)
      [] label = "Q7" -> query_top3_by_genre(d)
      [] label = "Q8" -> query_career_boost(d)
      [] label = "Q9" -> query_most_versatile_actors(d, Q9MinGenres, Q9Limit)

\* compare_performance.py main.mongo_specs: what the document function of a label can return
mongo_specs(label, m) ==
    CASE label = "Q1" -> mongo_q1_actor_filmography(m, TomHanks)
      [] label = "Q2" -> mongo_q2_top_n_movies(m, Drama, 1990, 2020, Q2TopN)
      [] label = "Q3" -> mongo_q3_multi_role_actors_fast(m, Q3FastLimit)
      [] label = "Q4" -> mongo_q4_collaborations(m, TomHanks)
      [] label = "Q5" -> mongo_q5_popular_genres(m)
      [] label = "Q6" -> mongo_q6_career_evolution(m, TomHanks)
      [] label = "Q7" -> mongo_q7_top3_by_genre(m)
      [] label = "Q8" -> mongo_q8_career_boost_fast2(m, VoteThreshold)
      [] label = "Q9" -> mongo_q9_most_versatile_actors(m, Q9MinGenres, Q9Limit)

\* main: one round of the loop, s_res and m_res of a label
Compare ==
    /\ Idle
    /\ \E label \in Labels :
        \E s_res \in sqlite_specs(label, db), m_res \in mongo_specs(label, mdb) :
            out' = [q |-> label, impl |-> "compare", args |-> <<>>, err |-> FALSE,
                    rows |-> s_res, keys |-> <<>>, mrows |-> m_res]
    /\ UNCHANGED <<db, mdb, indexes, run>>

-----------------------------------------------------------------------------
(* Datasets of Q7: titles that tie or differ on each sort key, rated or    *)
(* not, in one or two genres; one credited person (the resolver samples    *)
(* every collection).                                                      *)

Q7Titles ==
    TitleKinds(<<TitleA, TitleB>>, <<1994>>,
               <<[average_rating |-> 80, num_votes |-> 10],
                 [average_rating |-> 80, num_votes |-> 20],
                 [average_rating |-> 70, num_votes |-> 10]>>,
               <<{Drama}>>)
    \o <<[primary_title |-> TitleA, start_year |-> 1994,
          rated |-> [average_rating |-> 80, num_votes |-> 10], genres |-> {Drama, Comedy}],
         [primary_title |-> TitleA, start_year |-> 1994,
          rated |-> Unrated, genres |-> {Drama}]>>

OneCast ==
    <<[name |-> TomHanks,
       credits |-> {[movie_id |-> 1, ordering |-> 1, category |-> "actor"]},
       directs |-> {1},
       roles |-> {}]>>

Q7LoadTitle == LoadTitle(Q7Titles, MaxTitles)
Q7LoadPerson == LoadPerson(OneCast, MaxCast)

\* No script of the benchmark harness is running
NoRun == [pc |-> "none"]

Init ==
    /\ db = EmptyDb
    /\ mdb = EmptyDb
    /\ out = NoOut
    /\ indexes = {}
    /\ run = NoRun

NextQ7 ==
    \/ Q7LoadTitle
    \/ Q7LoadPerson
    \/ Migrate
    \/ RunQ7Sqlite
    \/ RunQ7Mongo
    \/ RunQ7Robust

SpecQ7 == Init /\ [][NextQ7]_vars

-----------------------------------------------------------------------------
(* Claims on Q7.                                                           *)

Q7Done == out.q = "Q7" /\ ~out.err

Q7Title(r) == IF "title" \in DOMAIN r THEN r.title ELSE r.primary_title

\* The rows of a genre are ranked 1..k, k <= 3, in the order returned
Q7RanksOk ==
    \A i \in DOMAIN out.keys :
        /\ out.keys[i].rank = Cardinality({j \in 1 .. i : out.keys[j].genre = out.keys[i].genre})
        /\ out.keys[i].rank <= 3
        /\ i > 1 => CmpStr(out.keys[i - 1].genre, out.keys[i].genre) <= 0

\* -1: a is before b on (rating desc, votes desc, title asc); 0: equal on all three
Q7KeyCmp(a, b) ==
    Lex(<<CmpInt(b.average_rating, a.average_rating),
          CmpInt(b.num_votes, a.num_votes),
          CmpStr(Q7Title(a), Q7Title(b))>>)

Q7SameGenreNeighbours ==
    {i \in DOMAIN out.keys : i > 1 /\ out.keys[i - 1].genre = out.keys[i].genre}

\* C4 as stated: at most 3 rows per genre, ranks 1..k, and consecutive rows of
\* a genre STRICTLY ordered by (rating desc, votes desc, title asc).
C4_Original ==
    Q7Done => /\ Q7RanksOk
              /\ \A i \in Q7SameGenreNeighbours : Q7KeyCmp(out.keys[i - 1], out.keys[i]) < 0

\* C4 amended: at most 3 rows per genre, ranks exactly 1..k with k <= 3, and
\* consecutive rows of a genre are ordered by (rating desc, votes desc, title
\* asc), where two rows may be equal on all three keys.
C4_Top3Ordered ==
    Q7Done => /\ Q7RanksOk
              /\ \A i \in Q7SameGenreNeighbours : Q7KeyCmp(out.keys[i - 1], out.keys[i]) <= 0

\* Q7 cut a genre of four rated titles to three rows, two of them equal on all keys
C4_Witness ==
    /\ Q7Done
    /\ Cardinality({g \in db.genres : g.genre = Drama /\ Match(db.ratings, "movie_id", g.movie_id) # {}}) = 4
    /\ Cardinality({i \in DOMAIN out.keys : out.keys[i].genre = Drama}) = 3
    /\ \E i \in Q7SameGenreNeighbours : Q7KeyCmp(out.keys[i - 1], out.keys[i]) = 0

-----------------------------------------------------------------------------
(* Datasets of Q2: dramas in and out of the ranges asked, rated or not,    *)
(* with or without a year, and a comedy.                                   *)

Q2Titles ==
    <<[primary_title |-> TitleA, start_year |-> 1994,
       rated |-> [average_rating |-> 80, num_votes |-> 10], genres |-> {Drama}],
      [primary_title |-> TitleB, start_year |-> 1994,
       rated |-> [average_rating |-> 80, num_votes |-> 10], genres |-> {Drama}],
      [primary_title |-> TitleA, start_year |-> 2010,
       rated |-> [average_rating |-> 70, num_votes |-> 10], genres |-> {Drama}],
      [primary_title |-> TitleA, start_year |-> 1985,
       rated |-> [average_rating |-> 90, num_votes |-> 10], genres |-> {Drama}],
      [primary_title |-> TitleA, start_year |-> Null,
       rated |-> [average_rating |-> 90, num_votes |-> 10], genres |-> {Drama}],
      [primary_title |-> TitleA, start_year |-> 1994,
       rated |-> Unrated, genres |-> {Drama}],
      [primary_title |-> TitleA, start_year |-> 1994,
       rated |-> [average_rating |-> 90, num_votes |-> 10], genres |-> {Comedy}]>>

Q2LoadTitle == LoadTitle(Q2Titles, MaxTitles)
Q2LoadPerson == LoadPerson(OneCast, MaxCast)

NextQ2 ==
    \/ Q2LoadTitle
    \/ Q2LoadPerson
    \/ Migrate
    \/ RunQ2Sqlite
    \/ RunQ2Mongo
    \/ RunQ2Robust

SpecQ2 == Init /\ [][NextQ2]_vars

-----------------------------------------------------------------------------
(* Claims on Q2.                                                           *)

Q2Done == out.q = "Q2" /\ ~out.err

\* The store a computation read
StoreOf(impl) == IF impl = "sqlite" THEN db ELSE mdb

\* The rows of a table or the documents of a collection, without _id
Content(S) == {[n \in DOMAIN x \ {"_id"} |-> x[n]] : x \in S}

\* A row under the column names of queries.py
Q2Norm(r) ==
    IF "title" \in DOMAIN r
    THEN [primary_title |-> r.title, start_year |-> r.year,
          average_rating |-> r.average_rating, num_votes |-> r.num_votes]
    ELSE r

\* The rated titles of the genre in the range, each with its rating
Q2Matching(S, genre, year_start, year_end) ==
    {j \in {[m |-> m, r |-> r] : m \in Content(S.movies), r \in Content(S.ratings)} :
        /\ j.r.movie_id = j.m.movie_id
        /\ InYears(j.m.start_year, year_start, year_end)
        /\ \E g \in S.genres : g.movie_id = j.m.movie_id /\ g.genre = genre}

\* C5 as stated: Q2 returns min(N, number of rated titles of the genre in
\* the range) rows, every row has a year in the range, and the rows are the
\* first N of the matching titles ordered by rating descending, votes
\* descending, title ascending.
C5_Original ==
    Q2Done =>
        LET matching == Q2Matching(StoreOf(out.impl), out.args[1], out.args[2], out.args[3])
            rows == [i \in DOMAIN out.rows |-> Q2Norm(out.rows[i])]
        IN  /\ Len(rows) = Min2(out.args[4], Cardinality(matching))
            /\ \A i \in DOMAIN rows : InYears(rows[i].start_year, out.args[2], out.args[3])
            /\ rows \in {Limit(s, out.args[4]) :
                            s \in OrderedResults(BagOf(matching, Q2Row), Q2Before)}

-----------------------------------------------------------------------------
(* Datasets of Q8: titles below and above the threshold in 2001, 2010 and  *)
(* 2015, one without a year; persons credited on some of the first three.  *)

Q8Titles ==
    <<[primary_title |-> TitleA, start_year |-> 2001,
       rated |-> [average_rating |-> 70, num_votes |-> 50000], genres |-> {Drama}],
      [primary_title |-> TitleA, start_year |-> 2010,
       rated |-> [average_rating |-> 70, num_votes |-> 300000], genres |-> {Drama}],
      [primary_title |-> TitleA, start_year |-> 2015,
       rated |-> [average_rating |-> 70, num_votes |-> 100000], genres |-> {Drama}],
      [primary_title |-> TitleA, start_year |-> Null,
       rated |-> [average_rating |-> 70, num_votes |-> 100000], genres |-> {Drama}]>>

\* A person credited as actor on the titles of ms, director of the first
CreditedOn(name, ms) ==
    [name |-> name,
     credits |-> {[movie_id |-> m, ordering |-> 1, category |-> "actor"] : m \in ms},
     directs |-> {1},
     roles |-> {}]

Q8People ==
    <<CreditedOn(TomHanks, {1, 2}),
      CreditedOn(TomHanks, {2, 3}),
      CreditedOn(TomHanks, {1, 2, 3}),
      CreditedOn(TitleB, {2})>>

Q8LoadTitle == LoadTitle(Q8Titles, MaxTitles)
Q8LoadPerson == LoadPerson(Q8People, MaxPeople)

NextQ8 ==
    \/ Q8LoadTitle
    \/ Q8LoadPerson
    \/ Migrate
    \/ RunQ8Sqlite
    \/ RunQ8Mongo
    \/ RunQ8Robust

SpecQ8 == Init /\ [][NextQ8]_vars

-----------------------------------------------------------------------------
(* Claims on Q8.                                                           *)

Q8Done == out.q = "Q8" /\ ~out.err

\* The years of a person's credited titles whose votes satisfy Test
Q8Years(S, person, Test(_)) ==
    {m.start_year : m \in {x \in S.movies :
        /\ x.start_year # Null
        /\ \E p \in S.principals : p.person_id = person /\ p.movie_id = x.movie_id
        /\ \E r \in S.ratings : r.movie_id = x.movie_id /\ Test(r.num_votes)}}

\* C2 as stated: every person returned by Q8 has an earliest year among the
\* titles with votes >= threshold that is strictly later than the latest year
\* among the titles with votes < threshold.
C2_Original ==
    Q8Done =>
        \A i \in DOMAIN out.keys :
            \A h \in Q8Years(StoreOf(out.impl), out.keys[i].person_id,
                             LAMBDA v : v >= VoteThreshold) :
                \A l \in Q8Years(StoreOf(out.impl), out.keys[i].person_id,
                                 LAMBDA v : v < VoteThreshold) :
                    l < h

\* The example of C2: titles with 50000, 300000 and 100000 votes in 2001, 2010
\* and 2015 all credited to one person, who is not returned.
C2_Example ==
    (/\ Q8Done
     /\ \A t \in 1 .. 3 : HasTitleRows(db, t, Q8Titles[t])
     /\ HasPersonRows(db, 1, Q8People[3])) =>
        \A i \in DOMAIN out.keys : out.keys[i].person_id # 1

-----------------------------------------------------------------------------
(* Datasets of Q3: one or two titles, persons playing no, one or two       *)
(* characters in the first title, and a characters file that changes.      *)

RoleA == <<97>>
RoleB == <<98>>

Q3Titles ==
    <<[primary_title |-> TitleA, start_year |-> 1994,
       rated |-> [average_rating |-> 80, num_votes |-> 10], genres |-> {Drama}],
      [primary_title |-> TitleB, start_year |-> 1994,
       rated |-> [average_rating |-> 80, num_votes |-> 10], genres |-> {Drama}]>>

\* A person credited on and director of title 1, playing the characters of names in it
Playing(name, names) ==
    [name |-> name,
     credits |-> {[movie_id |-> 1, ordering |-> 1, category |-> "actor"]},
     directs |-> {1},
     roles |-> {[movie_id |-> 1, name |-> n] : n \in names}]

Q3People ==
    <<Playing(TomHanks, {}),
      Playing(TomHanks, {RoleA}),
      Playing(TomHanks, {RoleA, RoleB})>>

\* characters.csv: person 1 in title 1
Q3Files ==
    {{[movie_id |-> 1, person_id |-> 1, name |-> n] : n \in names} :
        names \in SUBSET {RoleA, RoleB}}

Q3LoadTitle == LoadTitle(Q3Titles, MaxRoleTitles)
Q3LoadPerson == LoadPerson(Q3People, MaxPeople)
Q3ImportCharacters == ImportCharacters(Q3Files)

NextQ3 ==
    \/ Q3LoadTitle
    \/ Q3LoadPerson
    \/ Migrate
    \/ Q3ImportCharacters
    \/ RunQ3Sqlite
    \/ RunQ3Mongo
    \/ RunQ3Robust

SpecQ3 == Init /\ [][NextQ3]_vars

-----------------------------------------------------------------------------
(* Claims on Q3.                                                           *)

Q3Done == out.q = "Q3" /\ ~out.err

\* The role count a row reports
Q3Count(r) == IF "nb_roles" \in DOMAIN r THEN r.nb_roles ELSE r.role_count

\* The distinct character names of a (title, person) group of the store
Q3Names(S, movie, person) ==
    {c.name : c \in {x \in S.characters : x.movie_id = movie /\ x.person_id = person}}

\* C3 as stated: every row of Q3 reports the number of DISTINCT character
\* names of its (title, person) group, and that number is greater than 1.
C3_Original ==
    Q3Done =>
        \A i \in DOMAIN out.keys :
            LET names == Q3Names(StoreOf(out.impl), out.keys[i].movie_id, out.keys[i].person_id)
            IN  /\ Q3Count(out.keys[i]) = Cardinality(names)
                /\ Cardinality(names) > 1

\* The example of C3: a group with character rows A, A, B is reported with count 2.
C3_Example ==
    (/\ Q3Done
     /\ out.impl # "sqlite"
     /\ Cardinality(Match(Q3Members(mdb.characters, "movie_id", "person_id",
                                    [movie_id |-> 1, person_id |-> 1]), "name", RoleA)) = 2
     /\ Cardinality(Match(Q3Members(mdb.characters, "movie_id", "person_id",
                                    [movie_id |-> 1, person_id |-> 1]), "name", RoleB)) = 1) =>
        \E i \in DOMAIN out.keys :
            /\ out.keys[i].movie_id = 1
            /\ out.keys[i].person_id = 1
            /\ Q3Count(out.keys[i]) = 2

-----------------------------------------------------------------------------
(* Datasets of the comparison: a rated title in three genres and an unrated *)
(* one; persons of another name playing two characters and homonyms of the  *)
(* actor asked for, up to one more than _find_person_ids keeps.             *)

Crime == <<67, 114, 105, 109, 101>>
TomHanksLower == <<116, 111, 109, 32, 104, 97, 110, 107, 115>>

CompareTitles ==
    <<[primary_title |-> TitleA, start_year |-> 1994,
       rated |-> [average_rating |-> 80, num_votes |-> 10], genres |-> {Drama, Comedy, Crime}],
      [primary_title |-> TitleB, start_year |-> 2001,
       rated |-> Unrated, genres |-> {Drama}]>>

ComparePeople == <<Playing(TitleB, {RoleA, RoleB})>>

Homonym == Playing(TomHanksLower, {})

\* As many homonyms as _find_person_ids keeps, fewer, and more
HomonymCounts == {1, PersonLimit, MaxHomonyms}

CompareLoadTitle == LoadTitle(CompareTitles, MaxRoleTitles)
CompareLoadPerson == LoadPerson(ComparePeople, MaxCast)
CompareLoadPeople == LoadPeople(Homonym, HomonymCounts)

NextCompare ==
    \/ CompareLoadTitle
    \/ CompareLoadPerson
    \/ CompareLoadPeople
    \/ MigrateDrop
    \/ Compare

SpecCompare == Init /\ [][NextCompare]_vars

-----------------------------------------------------------------------------
(* Claims on the comparison.                                               *)

\* The document store holds the rows of the relational store, each once
SameSnapshot ==
    \A t \in Tables : Content(mdb[t]) = db[t] /\ Cardinality(mdb[t]) = Cardinality(db[t])

Compared == out.impl = "compare" /\ SameSnapshot

\* The records of a result, each with its number of occurrences
Records(s) == [v \in Range(s) |-> Cardinality({i \in DOMAIN s : s[i] = v})]

\* C1 as stated: on one snapshot held identically in both stores, the
\* relational function and the document function of every label return the
\* same records: what either returned is, up to the order of the rows, a
\* result the other can return.
C1_Original ==
    Compared =>
        /\ \E s \in sqlite_specs(out.q, db) : Records(s) = Records(out.mrows)
        /\ \E m \in mongo_specs(out.q, mdb) : Records(m) = Records(out.rows)

-----------------------------------------------------------------------------
(* The auxiliary indexes (benchmark_sqlite.py INDEXES) and the two steps   *)
(* that change them.                                                       *)

\* INDEXES: the names, in the order of the list
INDEXES ==
    <<"idx_persons_name", "idx_principals_person", "idx_principals_movie",
      "idx_genres_genre", "idx_movies_start_year">>

IndexNames == Range(INDEXES)

\* What executing a statement leaves: the indexes, and whether it raised
Executed(S, raised) == [indexes |-> S, raised |-> raised]

\* CREATE INDEX name, without IF NOT EXISTS: an existing name is an error
ExecCreatePlain(S, name) ==
    IF name \in S THEN Executed(S, TRUE) ELSE Executed(S \cup {name}, FALSE)

\* cur.execute(ddl) for "CREATE INDEX IF NOT EXISTS name ON ..."
ExecCreate(S, name) ==
    IF name \in S THEN Executed(S, FALSE) ELSE Executed(S \cup {name}, FALSE)

\* DROP INDEX name, without IF EXISTS: an absent name is an error
ExecDropPlain(S, name) ==
    IF name \in S THEN Executed(S \ {name}, FALSE) ELSE Executed(S, TRUE)

\* cur.execute(f"DROP INDEX IF EXISTS {name};")
ExecDrop(S, name) ==
    IF name \in S THEN Executed(S \ {name}, FALSE) ELSE Executed(S, FALSE)

\* for ... in INDEXES: cur.execute(...); a statement that raises ends the
\* loop, what the earlier ones did stays
ExecAll(S, Exec(_, _)) ==
    LET RECURSIVE go(_, _)
        go(T, i) ==
            IF i > Len(INDEXES) THEN Executed(T, FALSE)
            ELSE LET e == Exec(T, INDEXES[i])
                 IN  IF e.raised THEN e ELSE go(e.indexes, i + 1)
    IN  go(S, 1)

\* compare_performance.py apply_sqlite_indexes, and the creation step of
\* benchmark_sqlite.py main: every ddl of INDEXES, then commit
apply_sqlite_indexes(S) == ExecAll(S, ExecCreate)

\* The drop step of benchmark_sqlite.py main: every name of INDEXES, then commit
drop_sqlite_indexes(S) == ExecAll(S, ExecDrop)

\* The step that ran, the indexes before and after it, and the step before it
Stepped(op, e) ==
    [pc |-> "index", op |-> op, before |-> indexes, after |-> e.indexes, raised |-> e.raised,
     prev |-> IF run.pc = "index" THEN run.op ELSE "none",
     prevBefore |-> IF run.pc = "index" THEN run.before ELSE {}]

ApplyIndexes ==
    /\ run.pc \in {"none", "index"}
    /\ run.pc = "index" => ~run.raised
    /\ indexes' = apply_sqlite_indexes(indexes).indexes
    /\ run' = Stepped("apply", apply_sqlite_indexes(indexes))
    /\ UNCHANGED <<db, mdb, out>>

DropIndexes ==
    /\ run.pc \in {"none", "index"}
    /\ run.pc = "index" => ~run.raised
    /\ indexes' = drop_sqlite_indexes(indexes).indexes
    /\ run' = Stepped("drop", drop_sqlite_indexes(indexes))
    /\ UNCHANGED <<db, mdb, out>>

\* imdb.db as the steps find it: any of the indexes may exist
InitIndex ==
    /\ db = EmptyDb
    /\ mdb = EmptyDb
    /\ out = NoOut
    /\ indexes \in SUBSET IndexNames
    /\ run = NoRun

NextIndex ==
    \/ ApplyIndexes
    \/ DropIndexes

SpecIndex == InitIndex /\ [][NextIndex]_vars

\* C7: applying the index set is idempotent: an apply that follows an apply
\* raises no error and leaves the set of indexes the first apply left; an
\* apply from any state raises no error and leaves all five indexes.
C7_ApplyIdempotent ==
    (run.pc = "index" /\ run.op = "apply") =>
        /\ ~run.raised
        /\ run.after = run.before \cup IndexNames
        /\ run.prev = "apply" => run.after = run.before

\* An apply ran right after an apply that found some indexes and not others
C7_Witness ==
    /\ run.pc = "index"
    /\ run.op = "apply"
    /\ run.prev = "apply"
    /\ run.prevBefore # {}
    /\ run.prevBefore # IndexNames
    /\ indexes = IndexNames

\* C8: dropping the index set is idempotent: a drop from any state removes
\* every index of the set, raises no error for one that is absent, and a
\* drop that follows a drop changes nothing.
C8_DropIdempotent ==
    (run.pc = "index" /\ run.op = "drop") =>
        /\ ~run.raised
        /\ run.after = run.before \ IndexNames
        /\ run.prev = "drop" => run.after = run.before

\* A drop ran right after a drop that found some indexes and not others
C8_Witness ==
    /\ run.pc = "index"
    /\ run.op = "drop"
    /\ run.prev = "drop"
    /\ run.prevBefore # {}
    /\ run.prevBefore # IndexNames
    /\ indexes = {}

-----------------------------------------------------------------------------
(* The timing helpers: time_query (benchmark_sqlite.py), time_ms           *)
(* (compare_performance.py) and _time_ms (queries_mongo.py). The clock     *)
(* (time.perf_counter) advances while the computation runs; the result of  *)
(* the k-th invocation is k, and None is 0.                                *)

Helpers == {"time_query", "time_ms", "_time_ms"}

\* The value of an expression, or the exception it raised
Value(num, den) == [raised |-> FALSE, num |-> num, den |-> den]
ZeroDivisionError == [raised |-> TRUE, num |-> 0, den |-> 1]

\* The float num / den, den > 0, as an exact fraction in lowest terms
Ratio(num, den) ==
    LET g == Gcd(IF num < 0 THEN -num ELSE num, den)
    IN  Value(num \div g, den \div g)

\* elapsed * 1000.0 / (repeats + 1)
MeanMsOffByOne(elapsed, repeats) ==
    IF repeats = 0 THEN ZeroDivisionError ELSE Ratio(elapsed * 1000, repeats + 1)

\* (t1 - t0) * 1000.0 / repeats
MeanMs(elapsed, repeats) ==
    IF repeats = 0 THEN ZeroDivisionError ELSE Ratio(elapsed * 1000, repeats)

\* The value of the return statement of a helper
Returns(helper, elapsed, repeats, last) ==
    IF helper = "time_query"
    THEN [mean |-> MeanMs(elapsed, repeats), result |-> "none", last |-> 0]
    ELSE [mean |-> MeanMs(elapsed, Max2(repeats, 1)), result |-> "last", last |-> last]

\* A helper is called: time_query always warms up once
CallHelper ==
    /\ run.pc = "none"
    /\ \E helper \in Helpers, repeats \in 0 .. MaxRepeats, warmup \in 0 .. MaxWarmup :
        /\ helper = "time_query" => warmup = 1
        /\ run' = [pc |-> "warmup", helper |-> helper, repeats |-> repeats, warmup |-> warmup,
                   clock |-> 0, t0 |-> 0, durations |-> <<>>, timed |-> 0, last |-> 0,
                   ret |-> [mean |-> Value(0, 1), result |-> "none", last |-> 0]]
    /\ UNCHANGED <<db, mdb, out, indexes>>

\* One invocation of the computation, of some duration
Invoked(d) ==
    [run EXCEPT !.clock = @ + d,
                !.durations = Append(@, d),
                !.last = IF run.helper = "time_query" /\ run.pc = "warmup" THEN @
                         ELSE Len(run.durations) + 1]

\* for _ in range(warmup): last = thunk()
WarmUp ==
    /\ run.pc = "warmup"
    /\ Len(run.durations) < run.warmup
    /\ \E d \in 0 .. MaxTick : run' = Invoked(d)
    /\ UNCHANGED <<db, mdb, out, indexes>>

\* t0 = time.perf_counter()
ReadT0 ==
    /\ run.pc = "warmup"
    /\ Len(run.durations) = run.warmup
    /\ run' = [run EXCEPT !.pc = "timed", !.t0 = run.clock]
    /\ UNCHANGED <<db, mdb, out, indexes>>

\* for _ in range(repeats): last = thunk()
TimedCall ==
    /\ run.pc = "timed"
    /\ run.timed < run.repeats
    /\ \E d \in 0 .. MaxTick : run' = [Invoked(d) EXCEPT !.timed = @ + 1]
    /\ UNCHANGED <<db, mdb, out, indexes>>

\* t1 = time.perf_counter(); return ...
ReadT1AndReturn ==
    /\ run.pc = "timed"
    /\ run.timed = run.repeats
    /\ run' = [run EXCEPT !.pc = "returned",
                          !.ret = Returns(run.helper, run.clock - run.t0, run.repeats, run.last)]
    /\ UNCHANGED <<db, mdb, out, indexes>>

NextTiming ==
    \/ CallHelper
    \/ WarmUp
    \/ ReadT0
    \/ TimedCall
    \/ ReadT1AndReturn

SpecTiming == Init /\ [][NextTiming]_vars

\* The sum of the durations of the invocations from the i-th on
RECURSIVE SumFrom(_, _)
SumFrom(durs, i) == IF i > Len(durs) THEN 0 ELSE durs[i] + SumFrom(durs, i + 1)

\* A helper returned from a call with repeats >= 1 and a warm-up of 1
C9_Case == run.pc = "returned" /\ run.repeats >= 1 /\ run.warmup = 1

\* The computation ran repeats + 1 times and the mean is the time of the last
\* repeats invocations, in milliseconds, over repeats
C9_Mean ==
    /\ Len(run.durations) = run.repeats + 1
    /\ ~run.ret.mean.raised
    /\ run.ret.mean.num * run.repeats
           = 1000 * SumFrom(run.durations, 2) * run.ret.mean.den

\* C9 as stated: every helper invokes the computation r + 1 times, returns the
\* time of the r timed invocations over r in milliseconds, together with the
\* result of the last invocation.
C9_Original ==
    C9_Case => /\ C9_Mean
               /\ run.ret.result = "last"
               /\ run.ret.last = run.repeats + 1

\* C9 amended: every helper invokes the computation r + 1 times and returns
\* the time of the r timed invocations over r in milliseconds; time_ms and
\* _time_ms return it with the result of the last invocation, time_query
\* returns the mean alone.
C9_MeanAndLast ==
    C9_Case => /\ C9_Mean
               /\ run.helper = "time_query" => run.ret.result = "none"
               /\ run.helper # "time_query" => /\ run.ret.result = "last"
                                               /\ run.ret.last = run.repeats + 1

\* time_query returned after a warm-up that took time and two timed invocations
C9_Witness ==
    /\ C9_Case
    /\ run.helper = "time_query"
    /\ run.repeats = 2
    /\ run.durations[1] > 0
    /\ SumFrom(run.durations, 2) > 0

-----------------------------------------------------------------------------
(* benchmark_sqlite.py main, statement by statement: the indexes of        *)
(* INDEXES are dropped, the queries are timed, the indexes are created,    *)
(* the queries are timed again, and print_table reports the gain.          *)

\* make_queries: the labels in the order of the dictionary
Queries == <<"Q1", "Q2", "Q3", "Q4", "Q5", "Q6", "Q7", "Q8", "Q9">>

\* The labels the run of main times
Timed == {Queries[i] : i \in 1 .. Min2(MaxQueries, Len(Queries))}

\* repeats=3 of the calls of time_query in main
BenchRepeats == 3

\* for ... in INDEXES: the loop has no i-th item left
ExhaustedButLast(i) == i >= Len(INDEXES)

\* for ... in INDEXES: the loop has no i-th item left
Exhausted(i) == i > Len(INDEXES)

\* 100.0 * (t2 - t1) / t1: the operands of the difference exchanged
GainSwapped(t1, t2) ==
    IF t1.num > 0
    THEN Ratio(100 * (t2.num * t1.den - t1.num * t2.den), t1.num * t2.den)
    ELSE Value(0, 1)

\* 100.0 * (t1 - t2) / t1, the test of t1 left out
GainUnguarded(t1, t2) ==
    IF t1.num = 0 THEN ZeroDivisionError
    ELSE Ratio(100 * (t1.num * t2.den - t2.num * t1.den), t1.num * t2.den)

\* print_table: the gain of a row, 100.0 * (t1 - t2) / t1 if t1 > 0 else 0.0
Gain(t1, t2) ==
    IF t1.num > 0
    THEN Ratio(100 * (t1.num * t2.den - t2.num * t1.den), t1.num * t2.den)
    ELSE Value(0, 1)

\* imdb.db as main finds it: any of the indexes may exist
InitBench ==
    /\ db = EmptyDb
    /\ mdb = EmptyDb
    /\ out = NoOut
    /\ indexes \in SUBSET IndexNames
    /\ run = NoRun

BenchLoadTitle == run.pc = "none" /\ LoadTitle(CompareTitles, MaxRoleTitles)

\* conn = sqlite3.connect(DB_PATH); size_before = os.path.getsize(DB_PATH);
\* cur = conn.cursor(). A size is kept as the indexes the file holds when it
\* is read.
StartMain ==
    /\ run.pc = "none"
    /\ run' = [pc |-> "drop", i |-> 1, in_transaction |-> FALSE, closed |-> FALSE,
               todo |-> Timed, times_no_idx |-> << >>, times_with_idx |-> << >>,
               samples |-> {}, table |-> << >>, raised |-> FALSE,
               size_before |-> indexes, size_after |-> {}]
    /\ UNCHANGED <<db, mdb, out, indexes>>

\* cur.execute(f"DROP INDEX IF EXISTS {name};"): whether the statement leaves
\* a transaction open is up to the driver
DropNext ==
    /\ run.pc = "drop"
    /\ ~Exhausted(run.i)
    /\ indexes' = ExecDrop(indexes, INDEXES[run.i]).indexes
    /\ \E opened \in BOOLEAN :
        run' = [run EXCEPT !.i = @ + 1, !.in_transaction = @ \/ opened]
    /\ UNCHANGED <<db, mdb, out>>

\* conn.commit() after the drops; queries = make_queries()
CommitDrops ==
    /\ run.pc = "drop"
    /\ Exhausted(run.i)
    /\ run' = [run EXCEPT !.pc = "time_no_idx", !.in_transaction = FALSE, !.todo = Timed]
    /\ UNCHANGED <<db, mdb, out, indexes>>

\* What a call of time_query observes and returns: the rows of the query on
\* the database as it is, and the mean of a window of elapsed ticks
Sample(regime, label, rows, elapsed) ==
    [regime |-> regime, label |-> label, indexes |-> indexes,
     in_transaction |-> run.in_transaction, closed |-> run.closed,
     rows |-> Len(rows), t |-> MeanMs(elapsed, BenchRepeats)]

\* The next label of the dictionary among those left
NextLabel(todo) == Queries[CHOOSE i \in DOMAIN Queries :
                               /\ Queries[i] \in todo
                               /\ \A j \in 1 .. i - 1 : Queries[j] \notin todo]

\* t = time_query(conn, func, repeats=3); times_no_idx[label] = t
TimeNoIdx ==
    /\ run.pc = "time_no_idx"
    /\ run.todo # {}
    /\ LET label == NextLabel(run.todo)
       IN  \E rows \in sqlite_specs(label, db), elapsed \in 0 .. MaxTick :
            LET s == Sample("sans", label, rows, elapsed)
            IN  run' = [run EXCEPT !.todo = @ \ {label},
                                   !.samples = @ \cup {s},
                                   !.times_no_idx = @ @@ (label :> s.t)]
    /\ UNCHANGED <<db, mdb, out, indexes>>

\* The first loop of measures is over: cur.execute(ddl) for the first ddl
StartCreate ==
    /\ run.pc = "time_no_idx"
    /\ run.todo = {}
    /\ run' = [run EXCEPT !.pc = "create", !.i = 1]
    /\ UNCHANGED <<db, mdb, out, indexes>>

\* cur.execute(ddl), ddl a CREATE INDEX IF NOT EXISTS
CreateNext ==
    /\ run.pc = "create"
    /\ ~Exhausted(run.i)
    /\ indexes' = ExecCreate(indexes, INDEXES[run.i]).indexes
    /\ \E opened \in BOOLEAN :
        run' = [run EXCEPT !.i = @ + 1, !.in_transaction = @ \/ opened]
    /\ UNCHANGED <<db, mdb, out>>

\* conn.commit() after the creations; size_after = os.path.getsize(DB_PATH)
CommitCreates ==
    /\ run.pc = "create"
    /\ Exhausted(run.i)
    /\ run' = [run EXCEPT !.pc = "time_with_idx", !.in_transaction = FALSE, !.todo = Timed,
                          !.size_after = indexes]
    /\ UNCHANGED <<db, mdb, out, indexes>>

\* t = time_query(conn, func, repeats=3); times_with_idx[label] = t
TimeWithIdx ==
    /\ run.pc = "time_with_idx"
    /\ run.todo # {}
    /\ LET label == NextLabel(run.todo)
       IN  \E rows \in sqlite_specs(label, db), elapsed \in 0 .. MaxTick :
            LET s == Sample("avec", label, rows, elapsed)
            IN  run' = [run EXCEPT !.todo = @ \ {label},
                                   !.samples = @ \cup {s},
                                   !.times_with_idx = @ @@ (label :> s.t)]
    /\ UNCHANGED <<db, mdb, out, indexes>>

\* conn.close()
Close ==
    /\ run.pc = "time_with_idx"
    /\ run.todo = {}
    /\ run' = [run EXCEPT !.pc = "table", !.closed = TRUE]
    /\ UNCHANGED <<db, mdb, out, indexes>>

\* print_table(results): a row per label, unless the gain of a row raises
PrintTable ==
    /\ run.pc = "table"
    /\ LET rows == [label \in Timed |->
                       [t1 |-> run.times_no_idx[label], t2 |-> run.times_with_idx[label],
                        gain |-> Gain(run.times_no_idx[label], run.times_with_idx[label])]]
       IN  run' = [run EXCEPT !.pc = "done", !.table = rows,
                              !.raised = \E label \in Timed : rows[label].gain.raised]
    /\ UNCHANGED <<db, mdb, out, indexes>>

NextBench ==
    \/ BenchLoadTitle
    \/ StartMain
    \/ DropNext
    \/ CommitDrops
    \/ TimeNoIdx
    \/ StartCreate
    \/ CreateNext
    \/ CommitCreates
    \/ TimeWithIdx
    \/ Close
    \/ PrintTable

SpecBench == InitBench /\ [][NextBench]_vars

\* main is running or has run
InMain == run.pc \in {"drop", "time_no_idx", "create", "time_with_idx", "table", "done"}

\* C6: every measure without index was taken with none of the five indexes in
\* the database and no statement uncommitted, every measure with index with
\* all five in the database and no statement uncommitted.
C6_MeasuredOnWholeIndexSets ==
    InMain =>
        \A s \in run.samples :
            /\ ~s.in_transaction
            /\ ~s.closed
            /\ s.regime = "sans" => s.indexes \cap IndexNames = {}
            /\ s.regime = "avec" => IndexNames \subseteq s.indexes

\* main took both measures of a label on a database that had all the indexes
\* at the start
C6_Witness ==
    /\ InMain
    /\ \E s, t \in run.samples :
        /\ s.regime = "sans" /\ s.indexes = {}
        /\ t.regime = "avec" /\ t.indexes = IndexNames
        /\ s.label = t.label
        /\ s.rows > 0

\* The result of label was empty in both measures
EmptyInBoth(label) ==
    \A s \in run.samples : s.label = label => s.rows = 0

\* C10 as stated: a label whose result is empty in both regimes gets a gain of
\* 0 percent, and no division by zero is raised.
C10_Original ==
    run.pc = "done" =>
        \A label \in Timed :
            EmptyInBoth(label) => /\ ~run.table[label].gain.raised
                                  /\ run.table[label].gain.num = 0

\* C10 amended: whether the result of a label is empty or not, no division by
\* zero is raised; the gain is 0 percent when the mean time without index is
\* 0, and 100 * (t1 - t2) / t1 otherwise.
C10_GainOfTimes ==
    run.pc = "done" =>
        /\ ~run.raised
        /\ \A label \in Timed :
            LET r == run.table[label]
            IN  /\ ~r.gain.raised
                /\ r.t1.num = 0 => r.gain.num = 0
                /\ r.t1.num > 0 =>
                       r.gain.num * r.t1.num * r.t2.den
                           = 100 * (r.t1.num * r.t2.den - r.t2.num * r.t1.den) * r.gain.den

\* The table has a label of empty result whose mean time without index was 0
\* and whose mean time with index was not
C10_Witness ==
    /\ run.pc = "done"
    /\ \E label \in Timed :
        /\ EmptyInBoth(label)
        /\ run.table[label].t1.num = 0
        /\ run.table[label].t2.num > 0
        /\ run.table[label].gain.num = 0

\* The value of the fraction a is 100 * (t1 - t2) / t1
IsGainOf(a, t1, t2) ==
    a.num * t1.num * t2.den = 100 * (t1.num * t2.den - t2.num * t1.den) * a.den

\* C11: in every row of the table the gain is 100 * (baseline - indexed) /
\* baseline when the baseline is greater than 0 and exactly 0 when the baseline
\* is 0; print_table never divides by a baseline of 0.
C11_GainFormula ==
    run.pc = "done" =>
        \A label \in DOMAIN run.table :
            LET r == run.table[label]
            IN  IF r.t1.num = 0
                THEN r.gain = Value(0, 1)
                ELSE ~r.gain.raised /\ r.gain.den > 0 /\ IsGainOf(r.gain, r.t1, r.t2)

\* The table has a row whose baseline is 0 and a row whose indexed time is
\* longer than its baseline, of negative gain
C11_Witness ==
    /\ run.pc = "done"
    /\ \E a, b \in DOMAIN run.table :
        /\ run.table[a].t1.num = 0
        /\ run.table[b].t1.num > 0
        /\ run.table[b].gain.num < 0
        /\ run.table[b].gain = Ratio(-100, 1)

-----------------------------------------------------------------------------
(* The benchmark runs of phase 2: compare_performance.py main and          *)
(* queries_mongo.py main with run_benchmarks, one invocation of a          *)
(* computation at a time. No function of the two scripts catches an        *)
(* exception: one raised by an invocation leaves the helper, the loop and  *)
(* main.                                                                   *)

\* The limit run_benchmarks gives q2_top_n_films
BenchTopN == 10

\* run_benchmarks specs: what the function of an entry can return; the
\* entries follow the order of the nine questions
robust_specs(label, m) ==
    CASE label = "Q1" -> q1_actor_filmography(m, TomHanks)
      [] label = "Q2" -> q2_top_n_films(m, Drama, 1990, 2000, BenchTopN)
      [] label = "Q3" -> q3_multi_role_actors(m, Q3Limit)

\* The entries a run goes through
Catalogue == SubSeq(Queries, 1, Min2(MaxQueries, Len(Queries)))

\* A label no dictionary of compare_performance.py has
Unlisted == "Q10"

\* What an invocation of the function of label can return
Results(script, side, label) ==
    IF side = "sqlite" THEN sqlite_specs(label, db)
    ELSE IF script = "compare_performance" THEN mongo_specs(label, mdb)
    ELSE robust_specs(label, mdb)

\* What an invocation can do: return ("ok"), raise the error of the driver when
\* the backend fails, or raise the KeyError of _first_key
Outcomes(script) ==
    IF script = "queries_mongo" /\ ~Resolved(SampleFields(mdb))
    THEN {"KeyError", "TransportError"}
    ELSE {"ok", "TransportError"}

\* if label not in mongo_specs: print("[SKIP] ..."); continue -- the first
\* entry from the i-th on that the loop does not skip
RECURSIVE NotSkipped(_, _, _)
NotSkipped(script, labels, i) ==
    IF i > Len(labels) THEN i
    ELSE IF script = "compare_performance" /\ labels[i] \notin Labels
         THEN NotSkipped(script, labels, i + 1)
         ELSE i

\* The loop goes on with the entry after the (i - 1)-th, or ends
NextEntry(r, i) ==
    LET j == NotSkipped(r.script, r.labels, i)
    IN  [r EXCEPT !.i = j, !.side = IF r.script = "compare_performance" THEN "sqlite" ELSE "mongo",
                  !.done = 0, !.ok = 0,
                  !.skipped = @ \cup {r.labels[k] : k \in i .. j - 1},
                  !.pc = IF j > Len(r.labels) THEN "report" ELSE "call"]

\* The exception is caught in the helper: the iteration is counted although
\* the invocation did not complete
PropagateSwallowed(r, exc) == [r EXCEPT !.done = @ + 1]

\* An exception raised by thunk() in time_ms / _time_ms: nothing catches it,
\* it leaves the helper and main
Propagate(r, exc) == [r EXCEPT !.pc = "exited", !.raised = exc]

\* last = thunk() returned
Completed(r) == [r EXCEPT !.done = @ + 1, !.ok = @ + 1]

\* The line and the row of an entry: the label, the numbers of rows, and the
\* invocations that completed for each figure
Figure(r, n) ==
    IF r.script = "compare_performance"
    THEN [query |-> r.labels[r.i], rows_sqlite |-> r.n_sql, rows_mongo |-> n,
          sqlite_indexes |-> IF r.with_indexes THEN 1 ELSE 0,
          sqlite_ok |-> r.s_ok, mongo_ok |-> r.ok]
    ELSE [query |-> r.labels[r.i], rows_sqlite |-> Null, rows_mongo |-> n,
          sqlite_indexes |-> Null,
          sqlite_ok |-> Null, mongo_ok |-> r.ok]

\* After the last iteration the helper returns: main goes to the helper call
\* of the document side or reports the entry (print, rows_out.append)
Returning(r, n) ==
    IF r.pc # "call" \/ r.done < r.warmup + r.repeats THEN r
    ELSE IF r.script = "compare_performance" /\ r.side = "sqlite"
         THEN [r EXCEPT !.side = "mongo", !.done = 0, !.ok = 0, !.s_ok = r.ok, !.n_sql = n]
         ELSE NextEntry([r EXCEPT !.rows_out = Append(@, Figure(r, n))], r.i + 1)

\* The state of a run that opened its connections
Started(script, labels, repeats, warmup, bench, conn, client) ==
    [pc |-> "start", script |-> script, labels |-> labels, repeats |-> repeats,
     warmup |-> warmup, bench |-> bench, conn |-> conn, client |-> client,
     i |-> 0, side |-> "none", done |-> 0, ok |-> 0, s_ok |-> 0, n_sql |-> Null,
     rows_out |-> <<>>, skipped |-> {}, csv |-> FALSE, raised |-> "none",
     with_indexes |-> FALSE]

\* compare_performance.py main up to the loop, on the entries make_queries
\* gives: connect, apply_sqlite_indexes with --with-indexes, MongoClient, ping
StartCompareOn(catalogues) ==
    /\ run.pc = "none"
    /\ \E labels \in catalogues, repeats \in 1 .. MaxRepeats, warmup \in 0 .. MaxWarmup,
          with_indexes \in BOOLEAN, ping \in {"ok", "TransportError"} :
        LET r == [Started("compare_performance", labels, repeats, warmup, TRUE, "open", "open")
                      EXCEPT !.with_indexes = with_indexes]
        IN  /\ indexes' = IF with_indexes THEN apply_sqlite_indexes(indexes).indexes ELSE indexes
            /\ run' = IF ping = "ok" THEN NextEntry(r, 1)
                       ELSE Propagate([r EXCEPT !.client = "none"], ping)
    /\ UNCHANGED <<db, mdb, out>>

StartCompare == StartCompareOn({Catalogue})

\* queries_mongo.py main up to run_benchmarks or the quick test: connect_mongo
StartMongo ==
    /\ run.pc = "none"
    /\ \E bench \in BOOLEAN, ping \in {"ok", "TransportError"} :
        LET r == Started("queries_mongo", Catalogue, 3, 1, bench, "none", "open")
        IN  run' = IF ping # "ok" THEN Propagate([r EXCEPT !.client = "none"], ping)
                   ELSE IF bench THEN NextEntry(r, 1)
                   ELSE [r EXCEPT !.pc = "quick"]
    /\ UNCHANGED <<db, mdb, out, indexes>>

\* One iteration of a loop of time_ms / _time_ms: last = thunk()
Invoke ==
    /\ run.pc = "call"
    /\ \E outcome \in Outcomes(run.script) :
        IF outcome = "ok"
        THEN \E rows \in Results(run.script, run.side, run.labels[run.i]) :
                run' = Returning(Completed(run), Len(rows))
        ELSE run' = Returning(Propagate(run, outcome), Null)
    /\ UNCHANGED <<db, mdb, out, indexes>>

\* queries_mongo.py main without --bench: print(q1_actor_filmography(...)[:3])
QuickTest ==
    /\ run.pc = "quick"
    /\ \E outcome \in Outcomes(run.script) :
        run' = IF outcome = "ok" THEN [run EXCEPT !.pc = "closing"]
               ELSE Propagate(run, outcome)
    /\ UNCHANGED <<db, mdb, out, indexes>>

\* with open(out, "w") ...: w.writeheader(); w.writerows(rows_out)
WriteCsv ==
    /\ run.pc = "report"
    /\ \E outcome \in {"ok", "OSError"} :
        run' = IF outcome = "ok" THEN [run EXCEPT !.pc = "closing", !.csv = TRUE]
               ELSE Propagate(run, outcome)
    /\ UNCHANGED <<db, mdb, out, indexes>>

\* conn.close(); client.close() at the end of main
CloseAll ==
    /\ run.pc = "closing"
    /\ run' = [run EXCEPT !.pc = "exited",
                          !.conn = IF @ = "open" THEN "closed" ELSE @,
                          !.client = IF @ = "open" THEN "closed" ELSE @]
    /\ UNCHANGED <<db, mdb, out, indexes>>

HarnessLoadTitle == run.pc = "none" /\ LoadTitle(CompareTitles, MaxRoleTitles)
HarnessLoadPerson == run.pc = "none" /\ LoadPerson(ComparePeople, MaxCast)
HarnessMigrate == run.pc = "none" /\ MigrateDrop

NextHarness ==
    \/ HarnessLoadTitle
    \/ HarnessLoadPerson
    \/ HarnessMigrate
    \/ StartCompare
    \/ StartMongo
    \/ Invoke
    \/ QuickTest
    \/ WriteCsv
    \/ CloseAll

SpecHarness == Init /\ [][NextHarness]_vars

\* A run of one of the two scripts
InHarness == run.pc \in {"call", "quick", "report", "closing", "exited"}

\* The entries that have a line in the report
Reported == {run.rows_out[k].query : k \in DOMAIN run.rows_out}

\* C12 as stated: when a computation raised during a run, the run still ends
\* with a report that has every other entry, the failed one annotated.
C12_Original ==
    (InHarness /\ run.pc = "exited" /\ run.i >= 1 /\ run.raised \in {"KeyError", "TransportError"}) =>
        /\ run.csv
        /\ \A k \in DOMAIN run.labels : run.labels[k] \in Reported \cup run.skipped

\* C13 as stated: a run leaves no connection it opened open, on any exit path.
C13_Original ==
    (InHarness /\ run.pc = "exited") => run.conn # "open" /\ run.client # "open"

\* C14: every figure of a report comes from a helper call all of whose
\* invocations, the warm-up ones and the timed ones, completed.
C14_FiguresOfCompletedCalls ==
    InHarness =>
        \A k \in DOMAIN run.rows_out :
            LET fig == run.rows_out[k]
            IN  /\ fig.mongo_ok = run.warmup + run.repeats
                /\ run.script = "compare_performance" =>
                       fig.sqlite_ok = run.warmup + run.repeats
                /\ fig.query = run.labels[k]

\* compare_performance.py reported an entry and left on an exception raised by
\* an invocation of the next one, after the warm-up
C14_Witness ==
    /\ InHarness
    /\ run.script = "compare_performance"
    /\ run.pc = "exited"
    /\ run.raised = "TransportError"
    /\ Len(run.rows_out) = 1
    /\ run.i = 2
    /\ run.warmup = 1
    /\ run.done > run.warmup
    /\ run.side = "mongo"

-----------------------------------------------------------------------------
(* The schema resolver on the documents a database may hold: _sample_fields *)
(* reads the field names of one document of every collection.              *)

\* The roles in the order _sample_fields resolves them: the collection
\* sampled, the context given to _first_key, and the candidates, which may
\* hold a name f resolved earlier
Roles(f) ==
    <<[role |-> "movie_id", coll |-> "movies", ctx |-> "movies.movie_id",
       candidates |-> <<"movie_id", "id", "tconst", "_id">>],
      [role |-> "person_id", coll |-> "persons", ctx |-> "persons.person_id",
       candidates |-> <<"person_id", "id", "nconst", "_id">>],
      [role |-> "movie_title", coll |-> "movies", ctx |-> "movies.title",
       candidates |-> <<"title", "primary_title", "name">>],
      [role |-> "movie_year", coll |-> "movies", ctx |-> "movies.year",
       candidates |-> <<"year", "start_year", "release_year">>],
      [role |-> "person_name", coll |-> "persons", ctx |-> "persons.name",
       candidates |-> <<"name", "primary_name">>],
      [role |-> "genres_movie_id", coll |-> "genres", ctx |-> "genres.movie_id",
       candidates |-> <<"movie_id", "tconst", f.movie_id>>],
      [role |-> "genre", coll |-> "genres", ctx |-> "genres.genre",
       candidates |-> <<"genre", "genres">>],
      [role |-> "ratings_movie_id", coll |-> "ratings", ctx |-> "ratings.movie_id",
       candidates |-> <<"movie_id", "tconst", f.movie_id>>],
      [role |-> "avg_rating", coll |-> "ratings", ctx |-> "ratings.average_rating",
       candidates |-> <<"average_rating", "avg_rating", "rating">>],
      [role |-> "num_votes", coll |-> "ratings", ctx |-> "ratings.num_votes",
       candidates |-> <<"num_votes", "votes", "number_of_votes">>],
      [role |-> "principals_movie_id", coll |-> "principals", ctx |-> "principals.movie_id",
       candidates |-> <<"movie_id", "tconst", f.movie_id>>],
      [role |-> "principals_person_id", coll |-> "principals", ctx |-> "principals.person_id",
       candidates |-> <<"person_id", "nconst", f.person_id>>],
      [role |-> "principals_category", coll |-> "principals", ctx |-> "principals.category",
       candidates |-> <<"category", "role", "job">>],
      [role |-> "characters_movie_id", coll |-> "characters", ctx |-> "characters.movie_id",
       candidates |-> <<"movie_id", "tconst", f.movie_id>>],
      [role |-> "characters_person_id", coll |-> "characters", ctx |-> "characters.person_id",
       candidates |-> <<"person_id", "nconst", f.person_id>>],
      [role |-> "character_name", coll |-> "characters", ctx |-> "characters.character",
       candidates |-> <<"character", "characters", "name">>],
      [role |-> "directors_movie_id", coll |-> "directors", ctx |-> "directors.movie_id",
       candidates |-> <<"movie_id", "tconst", f.movie_id>>],
      [role |-> "directors_person_id", coll |-> "directors", ctx |-> "directors.person_id",
       candidates |-> <<"person_id", "nconst", f.person_id>>]>>

\* The context of the KeyError that leaves _sample_fields: that of the first
\* role, in the order of the code, whose _first_key raises
FirstFailure(f) ==
    LET failed == {i \in DOMAIN Roles(f) : f[Roles(f)[i].role] = KeyError}
    IN  IF failed = {} THEN "none"
        ELSE Roles(f)[CHOOSE i \in failed : \A j \in failed : i <= j].ctx

\* The field names of the documents migrate_table makes of the rows of a table
FlatFields(t) ==
    {"_id"} \cup
    CASE t = "movies" -> {"movie_id", "primary_title", "start_year"}
      [] t = "persons" -> {"person_id", "name"}
      [] t = "ratings" -> {"movie_id", "average_rating", "num_votes"}
      [] t = "genres" -> {"movie_id", "genre"}
      [] t = "principals" -> {"movie_id", "person_id", "ordering", "category"}
      [] t = "characters" -> {"movie_id", "person_id", "name"}
      [] t = "directors" -> {"movie_id", "person_id"}

\* The field names of the documents of another schema the resolver is made
\* for: names further down the candidate lists, several of a list at once
OtherFields(t) ==
    CASE t = "movies" -> {"_id", "tconst", "id", "name", "primary_title",
                          "release_year", "start_year"}
      [] t = "persons" -> {"_id", "nconst", "primary_name"}
      [] t = "ratings" -> {"_id", "tconst", "rating", "avg_rating", "votes"}
      [] t = "genres" -> {"_id", "id", "genres"}
      [] t = "principals" -> {"_id", "tconst", "nconst", "job", "role"}
      [] t = "characters" -> {"_id", "tconst", "nconst", "characters", "name"}
      [] t = "directors" -> {"_id", "tconst", "nconst"}

\* The collections find_one() may sample: empty, or one document of the
\* field names of a schema; characters may also hold a document with no
\* candidate name at all
Samples(t) ==
    {{}, {[x \in FlatFields(t) |-> Null]}, {[x \in OtherFields(t) |-> Null]}}
    \cup IF t = "characters" THEN {{[x \in {"_id", "role"} |-> Null]}} ELSE {}

InitResolver ==
    /\ db = EmptyDb
    /\ mdb \in [movies : Samples("movies"), persons : Samples("persons"),
                ratings : Samples("ratings"), genres : Samples("genres"),
                principals : Samples("principals"), characters : Samples("characters"),
                directors : Samples("directors")]
    /\ out = NoOut
    /\ indexes = {}
    /\ run = NoRun

\* f = _sample_fields(mdb), the first statement of every function q1..q9
CallSampleFields ==
    /\ run.pc = "none"
    /\ LET f == SampleFields(mdb)
       IN  run' = [pc |-> "resolved", f |-> f,
                   raised |-> IF Resolved(f) THEN "none" ELSE KeyError,
                   ctx |-> FirstFailure(f)]
    /\ UNCHANGED <<db, mdb, out, indexes>>

NextResolver == CallSampleFields

SpecResolver == InitResolver /\ [][NextResolver]_vars

\* The sampled document of the collection of a role has none of its candidates
NoCandidate(e) ==
    \A i \in DOMAIN e.candidates : e.candidates[i] \notin DOMAIN FindOne(mdb[e.coll])

\* C15 as stated: when the sampled document of a role's collection has none
\* of the role's candidates, an empty collection included, the resolution
\* raises an error naming the role and the collection, and returns no
\* defaulted name.
C15_Original ==
    run.pc = "resolved" =>
        \A i \in DOMAIN Roles(run.f) :
            NoCandidate(Roles(run.f)[i]) =>
                /\ run.raised = KeyError
                /\ \E j \in 1 .. i : NoCandidate(Roles(run.f)[j]) /\ run.ctx = Roles(run.f)[j].ctx

\* The role is one of characters, and that collection is empty
DefaultedRole(e) == e.coll = "characters" /\ mdb.characters = {}

\* C15 amended: when the sampled document of a role's collection has none of
\* the role's candidates, the resolution raises a KeyError naming the
\* collection and the role of the first such role -- except for the roles of
\* characters when that collection is empty: these get the names resolved for
\* movie_id and person_id and the name "character", and raise nothing.
C15_RaisesUnlessCharactersEmpty ==
    run.pc = "resolved" =>
        /\ \A i \in DOMAIN Roles(run.f) :
            (NoCandidate(Roles(run.f)[i]) /\ ~DefaultedRole(Roles(run.f)[i])) =>
                /\ run.raised = KeyError
                /\ \E j \in 1 .. i : /\ NoCandidate(Roles(run.f)[j])
                                     /\ ~DefaultedRole(Roles(run.f)[j])
                                     /\ run.ctx = Roles(run.f)[j].ctx
        /\ (run.raised = "none" /\ mdb.characters = {}) =>
                /\ run.f.characters_movie_id = run.f.movie_id
                /\ run.f.characters_person_id = run.f.person_id
                /\ run.f.character_name = "character"

\* The resolution raised on a document of characters that has no candidate of
\* the first role of that collection, every role before it being resolved
C15_Witness ==
    /\ run.pc = "resolved"
    /\ run.raised = KeyError
    /\ run.ctx = "characters.movie_id"
    /\ DOMAIN FindOne(mdb.characters) = {"_id", "role"}
    /\ run.f.principals_category # KeyError

\* C16: a resolved role has the earliest of its candidates that is a field of
\* the sampled document: no candidate before it is a field.
C16_FirstMatchWins ==
    (run.pc = "resolved" /\ run.raised = "none") =>
        \A i \in DOMAIN Roles(run.f) :
            LET e == Roles(run.f)[i]
                doc == FindOne(mdb[e.coll])
            IN  doc # Missing =>
                    \E k \in DOMAIN e.candidates :
                        /\ run.f[e.role] = e.candidates[k]
                        /\ e.candidates[k] \in DOMAIN doc
                        /\ \A j \in 1 .. k - 1 : e.candidates[j] \notin DOMAIN doc

\* The resolution returned on documents that hold the second and the third
\* candidate of a role (title of movies) and the first and the last of
\* another (person_id of persons in the migrated schema)
C16_Witness ==
    /\ run.pc = "resolved"
    /\ run.raised = "none"
    /\ DOMAIN FindOne(mdb.movies) = OtherFields("movies")
    /\ run.f.movie_title = "primary_title"
    /\ run.f.movie_id = "id"
    /\ DOMAIN FindOne(mdb.persons) = FlatFields("persons")
    /\ run.f.person_id = "person_id"

-----------------------------------------------------------------------------
(* The computations on the persons of a name (Q1, Q4, Q6), called with a   *)
(* name, a part of a name in another case, and the empty string.           *)

\* The empty string given as a name
Blank == <<>>

Names == {Blank, TomHanks, TomHanksLower}

\* A person with a credit on title 1 that is not an acting one
Crew(name) ==
    [name |-> name,
     credits |-> {[movie_id |-> 1, ordering |-> 1, category |-> "director"]},
     directs |-> {1},
     roles |-> {}]

NamePeople ==
    <<Playing(TomHanks, {}),
      Playing(TomHanks, {RoleA, RoleB}),
      Crew(TomHanks),
      Playing(TitleB, {RoleA})>>

NameLoadTitle == LoadTitle(CompareTitles, MaxRoleTitles)
NameLoadPerson == LoadPerson(NamePeople, MaxPeople)

RunQ1Sqlite ==
    /\ Idle
    /\ \E name \in Names :
        \E s \in query_actor_filmography(db, name) :
            out' = WithArgs(Returned("Q1", "sqlite", s, s), <<name>>)
    /\ UNCHANGED <<db, mdb, indexes, run>>

RunQ1Mongo ==
    /\ Idle
    /\ \E name \in Names :
        \E s \in mongo_q1_actor_filmography(mdb, name) :
            out' = WithArgs(Returned("Q1", "mongo", s, s), <<name>>)
    /\ UNCHANGED <<db, mdb, indexes, run>>

RunQ1Robust ==
    /\ Idle
    /\ \E name \in Names :
        IF Resolved(SampleFields(mdb))
        THEN \E s \in q1_actor_filmography(mdb, name) :
                out' = WithArgs(Returned("Q1", "robust", s, s), <<name>>)
        ELSE out' = WithArgs(Raised("Q1", "robust"), <<name>>)
    /\ UNCHANGED <<db, mdb, indexes, run>>

RunQ4Sqlite ==
    /\ Idle
    /\ \E name \in Names :
        \E s \in query_collaborations(db, name) :
            out' = WithArgs(Returned("Q4", "sqlite", s, s), <<name>>)
    /\ UNCHANGED <<db, mdb, indexes, run>>

RunQ4Mongo ==
    /\ Idle
    /\ \E name \in Names :
        \E s \in mongo_q4_collaborations(mdb, name) :
            out' = WithArgs(Returned("Q4", "mongo", s, s), <<name>>)
    /\ UNCHANGED <<db, mdb, indexes, run>>

RunQ6Sqlite ==
    /\ Idle
    /\ \E name \in Names :
        \E s \in query_career_evolution(db, name) :
            out' = WithArgs(Returned("Q6", "sqlite", s, s), <<name>>)
    /\ UNCHANGED <<db, mdb, indexes, run>>

RunQ6Mongo ==
    /\ Idle
    /\ \E name \in Names :
        \E s \in mongo_q6_career_evolution(mdb, name) :
            out' = WithArgs(Returned("Q6", "mongo", s, s), <<name>>)
    /\ UNCHANGED <<db, mdb, indexes, run>>

NextName ==
    \/ NameLoadTitle
    \/ NameLoadPerson
    \/ MigrateDrop
    \/ RunQ1Sqlite
    \/ RunQ1Mongo
    \/ RunQ1Robust
    \/ RunQ4Sqlite
    \/ RunQ4Mongo
    \/ RunQ6Sqlite
    \/ RunQ6Mongo

SpecName == Init /\ [][NextName]_vars

\* C17 as stated: Q1, Q4 and Q6 called with the empty string return an empty
\* sequence and raise nothing, on any dataset.
C17_Original ==
    (out.q \in {"Q1", "Q4", "Q6"} /\ out.args = <<Blank>>) =>
        ~out.err /\ out.rows = <<>>


\* The (credit, title, character) combinations the filmography of a name is
\* made of in store S: the acting credits of the persons whose name contains
\* it, with every character of the person in the title, or none
Q1Pairs(S, name) ==
    LET people == {pe.person_id : pe \in {x \in S.persons : Contains(x.name, name)}}
        acting == {p \in S.principals :
                      p.person_id \in people /\ p.category \in {"actor", "actress"}}
        played(p) == {c \in S.characters :
                         c.movie_id = p.movie_id /\ c.person_id = p.person_id}
    IN  UNION {UNION {{[p |-> p, title |-> m.primary_title, year |-> m.start_year,
                        character |-> c] :
                          c \in IF played(p) = {} THEN {NullText}
                                ELSE {x.name : x \in played(p)}} :
                      m \in Match(S.movies, "movie_id", p.movie_id)} :
               p \in acting}

\* The title and the character of a flat row
Q1Pair(r) ==
    [title |-> IF "primary_title" \in DOMAIN r THEN r.primary_title ELSE r.title,
     character |-> r.character]

Q1Title(r) == IF "primary_title" \in DOMAIN r THEN r.primary_title ELSE r.title

Q1Year(r) == IF "start_year" \in DOMAIN r THEN r.start_year ELSE r.year

\* C19 as stated: the rows of Q1 are one flat row per acting credit and
\* character (one row without character for a credit that has none), no
\* other row, by year descending then title ascending, in the three variants.
C19_Original ==
    (out.q = "Q1" /\ ~out.err) =>
        LET expected == Q1Pairs(StoreOf(out.impl), out.args[1])
            pair(e) == [title |-> e.title, character |-> e.character]
        IN  /\ \A k \in DOMAIN out.rows : "character" \in DOMAIN out.rows[k]
            /\ Records([k \in DOMAIN out.rows |-> Q1Pair(out.rows[k])])
                   = BagOf(expected, pair)
            /\ \A k \in 1 .. Len(out.rows) - 1 :
                   \/ Q1Year(out.rows[k]) > Q1Year(out.rows[k + 1])
                   \/ /\ Q1Year(out.rows[k]) = Q1Year(out.rows[k + 1])
                      /\ ~StrLess(Q1Title(out.rows[k + 1]), Q1Title(out.rows[k]))

-----------------------------------------------------------------------------
(* The loop of compare_performance.py main on a dictionary of make_queries *)
(* that has an entry mongo_specs lacks: the case the test                   *)
(* "if label not in mongo_specs" is written for. The nine labels of         *)
(* benchmark_sqlite.py all have a document function.                        *)

ExtendedCatalogues == {Catalogue \o <<Unlisted>>, <<Unlisted>> \o Catalogue}

StartCompareExtended == StartCompareOn(ExtendedCatalogues)

NextDispatch ==
    \/ HarnessLoadTitle
    \/ HarnessLoadPerson
    \/ HarnessMigrate
    \/ StartCompareExtended
    \/ Invoke
    \/ WriteCsv
    \/ CloseAll

SpecDispatch == Init /\ [][NextDispatch]_vars

-----------------------------------------------------------------------------
(* Claims on the titles without a rating.                                  *)

\* A row of Q2 is the row of a title of the store that has a rating
Q2RowOfRated(S, r) ==
    /\ r.average_rating # Null
    /\ \E m \in S.movies, x \in S.ratings :
          /\ x.movie_id = m.movie_id
          /\ m.primary_title = r.primary_title
          /\ m.start_year = r.start_year
          /\ x.average_rating = r.average_rating
          /\ x.num_votes = r.num_votes

\* C20 as stated: in Q2 a title with no rating record never appears in the
\* result, in the SQL variant and in both document variants.
C20_Original ==
    Q2Done =>
        \A k \in DOMAIN out.rows : Q2RowOfRated(StoreOf(out.impl), Q2Norm(out.rows[k]))

-----------------------------------------------------------------------------
(* Claims on a repeat count of 0.                                          *)

\* C30 as stated: called with a repeat count of 0, each helper makes its
\* warm-up invocations only and returns a mean without raising a division by
\* zero.
C30_Original ==
    (run.pc = "returned" /\ run.repeats = 0) =>
        /\ Len(run.durations) = run.warmup
        /\ ~run.ret.mean.raised

-----------------------------------------------------------------------------
(* Claims on the two sizes main prints.                                    *)

\* size_after has been read
SizedAfter == run.pc \in {"time_with_idx", "table", "done"}

\* C28 as stated: the size 'before index' is read while none of the five
\* indexes exists and the size 'after index' while all five exist, whatever
\* indexes the database held when main started.
C28_Original ==
    InMain =>
        /\ run.size_before \cap IndexNames = {}
        /\ SizedAfter => IndexNames \subseteq run.size_after

-----------------------------------------------------------------------------
(* Runs of benchmark_sqlite.py and of compare_performance.py one after the *)
(* other on one imdb.db, which has none of the indexes of INDEXES when it  *)
(* comes out of create_schema.py and import_data.py.                       *)

\* The process of a script ended, normally or on an exception: another run
\* can start
ProcessExit ==
    /\ run.pc \in {"done", "exited"}
    /\ run' = NoRun
    /\ UNCHANGED <<db, mdb, out, indexes>>

NextRegimes ==
    \/ StartMain
    \/ DropNext
    \/ CommitDrops
    \/ TimeNoIdx
    \/ StartCreate
    \/ CreateNext
    \/ CommitCreates
    \/ TimeWithIdx
    \/ Close
    \/ PrintTable
    \/ StartCompare
    \/ Invoke
    \/ WriteCsv
    \/ CloseAll
    \/ ProcessExit

SpecRegimes == Init /\ [][NextRegimes]_vars

\* C27 as stated: every row compare_performance.py reports with
\* sqlite_indexes = 0 was measured while none of the five indexes existed,
\* every row with sqlite_indexes = 1 while all five existed. (Nothing changes
\* the indexes between the first measure of a run and its end.)
C27_Original ==
    (InHarness /\ run.script = "compare_performance") =>
        \A k \in DOMAIN run.rows_out :
            /\ run.rows_out[k].sqlite_indexes = 0 => indexes \cap IndexNames = {}
            /\ run.rows_out[k].sqlite_indexes = 1 => IndexNames \subseteq indexes

-----------------------------------------------------------------------------
(* Q5 on its own: query_popular_genres and mongo_q5_popular_genres on      *)
(* stores of fifty titles of one content and a few more, so that a genre   *)
(* has fifty rated titles, or one more, and an average of 7.0, or more.    *)

Q5Titles ==
    <<[primary_title |-> TitleA, start_year |-> 1994,
       rated |-> [average_rating |-> 70, num_votes |-> 10], genres |-> {Drama}],
      [primary_title |-> TitleA, start_year |-> 1994,
       rated |-> [average_rating |-> 80, num_votes |-> 10], genres |-> {Drama}],
      [primary_title |-> TitleA, start_year |-> 1994,
       rated |-> [average_rating |-> 80, num_votes |-> 10], genres |-> {Drama, Comedy}],
      [primary_title |-> TitleA, start_year |-> 1994,
       rated |-> Unrated, genres |-> {Drama}],
      [primary_title |-> TitleA, start_year |-> 1994,
       rated |-> [average_rating |-> 60, num_votes |-> 10], genres |-> {Drama}]>>

\* import_movies, import_ratings, import_genres on files that hold n titles of
\* one content of kinds more: fifty into the empty database, then one at a time
LoadTitlesBulk(kinds) ==
    /\ mdb = EmptyDb
    /\ out.q = "none"
    /\ \E c \in DOMAIN kinds, n \in {1, Q5MinFilms} :
        LET ids == (Cardinality(db.movies) + 1) .. (Cardinality(db.movies) + n)
        IN  /\ n = Q5MinFilms <=> db.movies = {}
            /\ Cardinality(db.movies) + n <= Q5MinFilms + MaxExtraTitles
            /\ db' = [db EXCEPT !.movies = @ \cup UNION {TitleRows(id, kinds[c]).movies : id \in ids},
                                !.ratings = @ \cup UNION {TitleRows(id, kinds[c]).ratings : id \in ids},
                                !.genres = @ \cup UNION {TitleRows(id, kinds[c]).genres : id \in ids}]
    /\ UNCHANGED <<mdb, out, indexes, run>>

Q5LoadTitles == LoadTitlesBulk(Q5Titles)

RunQ5Sqlite ==
    /\ Idle
    /\ \E s \in query_popular_genres(db) :
        out' = Returned("Q5", "sqlite", s, s)
    /\ UNCHANGED <<db, mdb, indexes, run>>

RunQ5Mongo ==
    /\ Idle
    /\ \E s \in mongo_q5_popular_genres(mdb) :
        out' = Returned("Q5", "mongo", s, s)
    /\ UNCHANGED <<db, mdb, indexes, run>>

NextQ5 ==
    \/ Q5LoadTitles
    \/ MigrateDrop
    \/ RunQ5Sqlite
    \/ RunQ5Mongo

SpecQ5 == Init /\ [][NextQ5]_vars

-----------------------------------------------------------------------------
(* Claims on Q5.                                                           *)

Q5Done == out.q = "Q5" /\ ~out.err

\* The rated titles of genre g in the store S
Q5Rated(S, g) ==
    {m.movie_id : m \in {x \in S.movies :
        /\ \E y \in S.genres : y.movie_id = x.movie_id /\ y.genre = g
        /\ \E r \in S.ratings : r.movie_id = x.movie_id}}

\* The sum of the ratings of the titles of ids
Q5Total(S, ids) ==
    SumFn(ids, [id \in ids |-> (CHOOSE r \in S.ratings : r.movie_id = id).average_rating])

\* More than fifty rated titles, of a mean rating above 7.0
Q5Popular(S, g) ==
    /\ Cardinality(Q5Rated(S, g)) > Q5MinFilms
    /\ Q5Total(S, Q5Rated(S, g)) > Q5MinRating * Cardinality(Q5Rated(S, g))

C26_Original ==
    Q5Done =>
        \A k \in 1 .. Len(out.rows) - 1 :
            CmpAvg(out.rows[k].avg_rating, out.rows[k + 1].avg_rating) = 0 =>
                ~StrLess(out.rows[k + 1].genre, out.rows[k].genre)

-----------------------------------------------------------------------------
(* Q4 and Q6 in their three variants, on titles of two decades, rated or   *)
(* not, with a year, without one or with a negative one, and on persons    *)
(* with one credit, two credits in one title, credits in two titles, who   *)
(* direct or not.                                                          *)

CareerTitles ==
    <<[primary_title |-> TitleA, start_year |-> 1994,
       rated |-> [average_rating |-> 80, num_votes |-> 10], genres |-> {Drama}],
      [primary_title |-> TitleB, start_year |-> 1999,
       rated |-> Unrated, genres |-> {Drama}],
      [primary_title |-> TitleA, start_year |-> 2001,
       rated |-> [average_rating |-> 60, num_votes |-> 10], genres |-> {Drama}],
      [primary_title |-> TitleA, start_year |-> Null,
       rated |-> [average_rating |-> 80, num_votes |-> 10], genres |-> {Drama}],
      [primary_title |-> TitleA, start_year |-> -5,
       rated |-> [average_rating |-> 80, num_votes |-> 10], genres |-> {Drama}]>>

\* A person of a name with acting credits (title, ordering) and directed titles
Career(name, acts, directs) ==
    [name |-> name,
     credits |-> {[movie_id |-> a[1], ordering |-> a[2], category |-> "actor"] : a \in acts},
     directs |-> directs,
     roles |-> {}]

CareerPeople ==
    <<Career(TomHanks, {<<1, 1>>}, {}),
      Career(TomHanks, {<<1, 1>>, <<1, 2>>}, {}),
      Career(TomHanks, {<<1, 1>>, <<2, 1>>}, {1}),
      Career(TitleB, {}, {1}),
      Career(TitleA, {}, {1, 2})>>

CareerLoadTitle == LoadTitle(CareerTitles, MaxRoleTitles)
CareerLoadPerson == LoadPerson(CareerPeople, MaxPeople)

\* run_benchmarks: q4_director_collaborations(mdb, actor, 50)
Q4RobustLimit == 50

RunQ4Robust ==
    /\ Idle
    /\ \E name \in Names :
        IF Resolved(SampleFields(mdb))
        THEN \E s \in q4_director_collaborations(mdb, name, Q4RobustLimit) :
                out' = WithArgs(Returned("Q4", "robust", s, s), <<name>>)
        ELSE out' = WithArgs(Raised("Q4", "robust"), <<name>>)
    /\ UNCHANGED <<db, mdb, indexes, run>>

RunQ6Robust ==
    /\ Idle
    /\ \E name \in Names :
        IF Resolved(SampleFields(mdb))
        THEN \E s \in q6_career_by_decade(mdb, name) :
                out' = WithArgs(Returned("Q6", "robust", s, s), <<name>>)
        ELSE out' = WithArgs(Raised("Q6", "robust"), <<name>>)
    /\ UNCHANGED <<db, mdb, indexes, run>>

NextCareer ==
    \/ CareerLoadTitle
    \/ CareerLoadPerson
    \/ MigrateDrop
    \/ RunQ4Sqlite
    \/ RunQ4Mongo
    \/ RunQ4Robust
    \/ RunQ6Sqlite
    \/ RunQ6Mongo
    \/ RunQ6Robust

SpecCareer == Init /\ [][NextCareer]_vars

-----------------------------------------------------------------------------
(* Claims on Q4 and Q6.                                                    *)

Q4Done == out.q = "Q4" /\ ~out.err
Q6Done == out.q = "Q6" /\ ~out.err

\* The titles of the store S in which a person whose name contains name has
\* an acting credit
ActedIn(S, name) == {p.movie_id : p \in ActingCredits(S, LikePersonIds(S, name))}

\* The titles of ActedIn a person directed
DirectedOf(S, name, id) ==
    {t \in ActedIn(S, name) : \E d \in S.directors : d.movie_id = t /\ d.person_id = id}

\* The directors of a title of ActedIn, each with the number of those titles
Q4Expected(S, name) ==
    {[person_id |-> pe.person_id, director_name |-> pe.name,
      nb_films |-> Cardinality(DirectedOf(S, name, pe.person_id))] :
        pe \in {x \in S.persons : DirectedOf(S, name, x.person_id) # {}}}

\* The row of an expected director
Q4ExpectedRow(e) == [director_name |-> e.director_name, nb_films |-> e.nb_films]

\* A row of Q4 under the column names of queries.py
Q4Norm(r) ==
    IF "director" \in DOMAIN r
    THEN [director_name |-> r.director, nb_films |-> r.films_together]
    ELSE r

\* C21 as stated: Q4 returns one row per director of a title in which a
\* matching person acted, with the number of distinct such titles, by count
\* descending then name ascending.
C21_Original ==
    Q4Done =>
        LET rows == [k \in DOMAIN out.rows |-> Q4Norm(out.rows[k])]
        IN  /\ Records(rows) = BagOf(Q4Expected(StoreOf(out.impl), out.args[1]), Q4ExpectedRow)
            /\ \A k \in 1 .. Len(rows) - 1 :
                  \/ rows[k].nb_films > rows[k + 1].nb_films
                  \/ /\ rows[k].nb_films = rows[k + 1].nb_films
                     /\ ~StrLess(rows[k + 1].director_name, rows[k].director_name)

-----------------------------------------------------------------------------
(* Q4 of compare_performance.py against Q4 of queries.py when more persons *)
(* match the name than _find_person_ids keeps: the homonyms act in the     *)
(* first title, one more person of the name acts in and directs the second. *)

CrowdPeople == <<Career(TomHanks, {<<2, 1>>}, {2})>>

CrowdLoadPerson == LoadPerson(CrowdPeople, MaxCast)

NextCrowd ==
    \/ CompareLoadTitle
    \/ CrowdLoadPerson
    \/ CompareLoadPeople
    \/ MigrateDrop
    \/ RunQ4Sqlite
    \/ RunQ4Mongo

SpecCrowd == Init /\ [][NextCrowd]_vars

-----------------------------------------------------------------------------
(* Claims on the decades of Q6.                                            *)

\* floor(year / 10) * 10
FloorDecade(y) == (y \div 10) * 10

\* The titles of ActedIn, as they are in movies
ActedTitles(S, name) == {m \in Content(S.movies) : m.movie_id \in ActedIn(S, name)}

\* The rating of a title, NULL when it has none
RatingOf(S, id) ==
    IF Match(S.ratings, "movie_id", id) = {} THEN Null
    ELSE (CHOOSE r \in Match(S.ratings, "movie_id", id) : TRUE).average_rating

\* The number of titles a row of Q6 counts
Q6Count(r) == IF "film_count" \in DOMAIN r THEN r.film_count ELSE r.nb_films

\* C23 as stated: Q6 puts every counted title in the decade
\* floor(year / 10) * 10 and leaves out the titles without a year or with a
\* negative one: no row has an absent decade, and the decades of the rows are
\* those of the titles that have a year that is not negative.
C23_Original ==
    Q6Done =>
        /\ \A k \in DOMAIN out.rows : out.rows[k].decade # Null
        /\ {out.rows[k].decade : k \in DOMAIN out.rows}
              = {FloorDecade(m.start_year) :
                    m \in {x \in ActedTitles(StoreOf(out.impl), out.args[1]) :
                              x.start_year # Null /\ x.start_year >= 0}}

\* C29 as stated: Q6 counts a title once in its decade, in the count and in
\* the average, however many credit rows the person has in it. (Stated on the
\* decades of the years from 10 on, which no title without a year or with a
\* negative one falls in.)
C29_Original ==
    Q6Done =>
        \A k \in DOMAIN out.rows :
            out.rows[k].decade > 0 =>
                LET S == StoreOf(out.impl)
                    titles == {m \in ActedTitles(S, out.args[1]) :
                                  /\ m.start_year # Null
                                  /\ FloorDecade(m.start_year) = out.rows[k].decade}
                IN  /\ Q6Count(out.rows[k]) = Cardinality(titles)
                    /\ out.rows[k].avg_rating = Average(titles, LAMBDA m : RatingOf(S, m.movie_id))


-----------------------------------------------------------------------------
(* The two averaging computations, Q5 and Q6, on stores of fifty titles of *)
(* one content and a few more, rated or not, of two decades, and one       *)
(* person acting in the last ones.                                         *)

AvgTitles ==
    <<[primary_title |-> TitleA, start_year |-> 1994,
       rated |-> [average_rating |-> 80, num_votes |-> 10], genres |-> {Drama}],
      [primary_title |-> TitleA, start_year |-> 1994,
       rated |-> Unrated, genres |-> {Drama}],
      [primary_title |-> TitleA, start_year |-> 2001,
       rated |-> Unrated, genres |-> {Drama}],
      [primary_title |-> TitleA, start_year |-> 2001,
       rated |-> [average_rating |-> 60, num_votes |-> 10], genres |-> {Drama, Comedy}]>>

AvgPeople ==
    <<Career(TomHanks, {<<Q5MinFilms + 1, 1>>}, {}),
      Career(TomHanks, {<<Q5MinFilms + 1, 1>>, <<Q5MinFilms + 2, 1>>}, {}),
      Career(TomHanks, {<<1, 1>>, <<Q5MinFilms + 1, 1>>, <<Q5MinFilms + 2, 1>>}, {})>>

AvgLoadTitles == LoadTitlesBulk(AvgTitles)
AvgLoadPerson == LoadPerson(AvgPeople, MaxCast)

NextAverages ==
    \/ AvgLoadTitles
    \/ AvgLoadPerson
    \/ MigrateDrop
    \/ RunQ5Sqlite
    \/ RunQ5Mongo
    \/ RunQ6Sqlite
    \/ RunQ6Mongo

SpecAverages == Init /\ [][NextAverages]_vars

-----------------------------------------------------------------------------
(* Claims on the averages of Q5 and Q6.                                    *)

\* The titles of ids that have a rating record in the store S
RatedAmong(S, ids) == {id \in ids : \E r \in S.ratings : r.movie_id = id}

\* The titles with a year in which a person of the name acts, of a decade
DecadeTitles(S, name, decade) ==
    {m.movie_id : m \in {x \in ActedTitles(S, name) :
        x.start_year # Null /\ FloorDecade(x.start_year) = decade}}

\* avg is the mean of the ratings of the titles of ids that have one, and is
\* absent when none has
MeanOfRated(S, ids, avg) ==
    IF RatedAmong(S, ids) = {} THEN avg.num = Null
    ELSE /\ avg.num # Null
         /\ avg.num * Cardinality(RatedAmong(S, ids)) = Q5Total(S, RatedAmong(S, ids)) * avg.den

\* C24: the average of a row of Q5 or Q6 is the mean of the ratings of the
\* rated titles of its genre or decade, a title without a rating record adds
\* nothing to it (not a 0); Q6 counts the unrated titles of a decade in its
\* number of films and reports an absent average, not 0, when none is rated.
C24_UnratedNeverAveraged ==
    /\ Q5Done =>
        \A k \in DOMAIN out.rows :
            LET S == StoreOf(out.impl)
                titled == {g.movie_id : g \in {y \in S.genres : y.genre = out.rows[k].genre}}
            IN  MeanOfRated(S, titled, out.rows[k].avg_rating)
    /\ Q6Done =>
        \A k \in DOMAIN out.rows :
            LET S == StoreOf(out.impl)
                acted == DecadeTitles(S, out.args[1], out.rows[k].decade)
            IN  /\ Q6Count(out.rows[k]) = Cardinality(acted)
                /\ MeanOfRated(S, acted, out.rows[k].avg_rating)

\* query_career_evolution returned a decade of one rated and one unrated title
\* with the rating of the rated one, and a decade of one unrated title with
\* an absent average
C24_Witness ==
    /\ Q6Done
    /\ out.impl = "sqlite"
    /\ Len(out.rows) = 2
    /\ out.rows[1].nb_films = 2
    /\ Cardinality(RatedAmong(db, DecadeTitles(db, out.args[1], out.rows[1].decade))) = 1
    /\ out.rows[1].avg_rating = [num |-> 80, den |-> 1]
    /\ out.rows[2].nb_films = 1
    /\ RatedAmong(db, DecadeTitles(db, out.args[1], out.rows[2].decade)) = {}
    /\ out.rows[2].avg_rating.num = Null

-----------------------------------------------------------------------------
(* Q9 in its three registered variants: query_most_versatile_actors,       *)
(* mongo_q9_most_versatile_actors and, under the label Q9_free of          *)
(* run_benchmarks, q9_top_directors, on stores of fifty titles of one      *)
(* content and a few more, with actors and a director of twenty titles.    *)

Q9Titles ==
    <<[primary_title |-> TitleA, start_year |-> 1994,
       rated |-> [average_rating |-> 80, num_votes |-> 10], genres |-> {Drama, Comedy, Crime}],
      [primary_title |-> TitleA, start_year |-> 1994,
       rated |-> [average_rating |-> 60, num_votes |-> 10], genres |-> {Drama}],
      [primary_title |-> TitleB, start_year |-> 2001,
       rated |-> Unrated, genres |-> {Comedy, Crime}]>>

Q9People ==
    <<Career(TomHanks, {<<1, 1>>}, {}),
      Career(TomHanks, {<<1, 1>>, <<Q5MinFilms + 1, 1>>}, {}),
      Career(TitleB, {<<1, 1>>, <<1, 2>>, <<2, 1>>}, {1}),
      Career(TitleA, {}, 1 .. Q9RobustMinFilms),
      Career(TitleA, {<<Q5MinFilms + 1, 1>>}, 1 .. (Q9RobustMinFilms - 1))>>

Q9LoadTitles == LoadTitlesBulk(Q9Titles)
Q9LoadPerson == LoadPerson(Q9People, MaxPeople)

\* benchmark_sqlite.py make_queries: query_most_versatile_actors(conn, 3, 50)
RunQ9Sqlite ==
    /\ Idle
    /\ \E s \in query_most_versatile_actors(db, Q9MinGenres, Q9Limit) :
        out' = WithArgs(Returned("Q9", "sqlite", s, s), <<Q9MinGenres, Q9Limit>>)
    /\ UNCHANGED <<db, mdb, indexes, run>>

\* compare_performance.py mongo_specs: mongo_q9_most_versatile_actors(mdb, 3, 50)
RunQ9Mongo ==
    /\ Idle
    /\ \E s \in mongo_q9_most_versatile_actors(mdb, Q9MinGenres, Q9Limit) :
        out' = WithArgs(Returned("Q9", "mongo", s, s), <<Q9MinGenres, Q9Limit>>)
    /\ UNCHANGED <<db, mdb, indexes, run>>

\* queries_mongo.py run_benchmarks, "Q9_free": q9_top_directors(mdb, 20, 10)
RunQ9Robust ==
    /\ Idle
    /\ IF Resolved(SampleFields(mdb))
       THEN \E s \in q9_top_directors(mdb, Q9RobustMinFilms, Q9RobustLimit) :
               out' = WithArgs(Returned("Q9", "robust", s, s), <<Q9RobustMinFilms, Q9RobustLimit>>)
       ELSE out' = WithArgs(Raised("Q9", "robust"), <<Q9RobustMinFilms, Q9RobustLimit>>)
    /\ UNCHANGED <<db, mdb, indexes, run>>

NextQ9 ==
    \/ Q9LoadTitles
    \/ Q9LoadPerson
    \/ MigrateDrop
    \/ RunQ9Sqlite
    \/ RunQ9Mongo
    \/ RunQ9Robust

SpecQ9 == Init /\ [][NextQ9]_vars

-----------------------------------------------------------------------------
(* Claims on Q9.                                                           *)

Q9Done == out.q = "Q9" /\ ~out.err

\* The titles with a genre in which person id has an acting credit
Q9Acted(S, id) ==
    {p.movie_id : p \in {x \in S.principals :
        /\ x.person_id = id
        /\ x.category \in {"actor", "actress"}
        /\ \E g \in S.genres : g.movie_id = x.movie_id}}

\* The genres those titles carry
Q9Breadth(S, id) == {g.genre : g \in {y \in S.genres : y.movie_id \in Q9Acted(S, id)}}

\* C25 as stated, for the three variants registered as Q9, called with (K, L):
\* at most L rows, each the name of a person with acting credits over at
\* least K genres, the number of those genres and of the titles, by number of
\* genres descending, number of titles descending, name ascending.
C25_Original ==
    Q9Done =>
        LET S == StoreOf(out.impl)
        IN  /\ Len(out.rows) <= out.args[2]
            /\ \A k \in DOMAIN out.rows :
                IF {"name", "nb_genres", "nb_movies"} \subseteq DOMAIN out.rows[k]
                THEN /\ \E pe \in S.persons :
                           /\ pe.name = out.rows[k].name
                           /\ out.rows[k].nb_genres = Cardinality(Q9Breadth(S, pe.person_id))
                           /\ out.rows[k].nb_movies = Cardinality(Q9Acted(S, pe.person_id))
                     /\ out.rows[k].nb_genres >= out.args[1]
                     /\ k > 1 => ~Q9Before(out.rows[k], out.rows[k - 1])
                ELSE FALSE
=============================================================================
